---- MODULE Spec2Model ----
(***************************************************************************)
(* The incremental rebuild engine of ts-test-runner (class HmrManager):    *)
(* the dependency graph, the change classifier, the rebuild scheduler      *)
(* (queueRebuild / rebuildAll) and the serialized add/remove handlers.     *)
(*                                                                         *)
(* A path is a sequence of tokens.  Directory names and separators are     *)
(* single-character tokens, so startsWith on a token sequence is the       *)
(* string prefix test of the source; a file's base name and its extension  *)
(* are one token each.                                                     *)
(*                                                                         *)
(* Every `await` of the source is a scheduling point: the code between two *)
(* awaits is one action.  The event loop runs the pending promise          *)
(* continuations before it delivers the next I/O callback: a watcher event *)
(* or the return of the bundler arrives when no continuation is pending,   *)
(* except that the watcher may emit several events from one callback.      *)
(* Continuations that are pending together run in any order, and other     *)
(* processes change the file system at any time.                           *)
(***************************************************************************)
EXTENDS Integers, Sequences, FiniteSets, TLC

VARIABLES
    config,                 \* [srcDir, testDir]: this.config
    rebuildMode,            \* 'all' | 'selective'
    sourceChangeStrategy,   \* 'smart' | 'always-reload' | 'never-reload'
    criticalSourcePatterns, \* the patterns options add to the defaults: n stands for **/n.*
    disk,                   \* the source/test files that exist (fs.existsSync)
    outputs,                \* the artifacts under outDir, of the names the engine looks for
    allFiles,               \* this.allFiles (an array)
    rebuildQueue,           \* this.rebuildQueue
    directChanges,          \* this.directChanges
    dependencyGraph,        \* Map file -> Set of its imports
    reverseDependencyGraph, \* Map file -> Set of its dependents
    isRebuilding,           \* this.isRebuilding
    rebuildPromise,         \* this.rebuildPromise: 0 (null) or the slot of the drain it settles with
    drains,                 \* the rebuildAll invocations, one record per slot
    awaiting,               \* per slot: queueRebuild callers suspended on its promise (line 1307)
    resumed,                \* callers whose awaited promise settled and that have not continued yet
    operationQueue,         \* the chained handler operations, in arrival order
    emitted,                \* the events emitted by the last step
    inCallback,             \* the watcher is emitting events from one callback
    budget,                 \* the watcher events and file-system changes still to come
    startup,                \* the handler of the watcher's ready event: its position in lines 1092-1097
    watcher,                \* this.watcher: "open", "closing" (close() was called), "closed" (null),
                            \* and "exited" once the process has ended
    clsFiles, clsKind, clsResult, \* the classifier's inputs and result
    trvFiles, trvResult,          \* the files given to the traversal or to the re-scan, and the
                                  \* traversal's result
    rsvImport, rsvResult          \* [from, importPath] given to resolveImport, and what it returned

vars == << config, rebuildMode, sourceChangeStrategy, criticalSourcePatterns, disk, outputs, allFiles,
           rebuildQueue, directChanges, dependencyGraph, reverseDependencyGraph,
           isRebuilding, rebuildPromise, drains, awaiting, resumed,
           operationQueue, emitted, inCallback, budget, watcher, startup, clsFiles, clsKind,
           clsResult, trvFiles, trvResult, rsvImport, rsvResult >>

-----------------------------------------------------------------------------
(* Bounds *)

MaxDrains == 2      \* slots for rebuildAll invocations
MaxOps == 2         \* handler operations chained at one time
MaxChanged == 2     \* size of a changed-file set given to the classifier
MaxEvents == 4      \* watcher events and file-system changes of a behaviour
MaxFairEvents == 3  \* the same, for the behaviours checked under fairness

\* queueRebuild callers suspended at one time: an event suspends at most two, so the
\* program is never held back (NeverHeldBack)
MaxWaiters == 2 * MaxEvents

-----------------------------------------------------------------------------
(* Paths *)

SEP == "/"
NoPath == << >>

\* no import given to resolveImport yet
NoImport == [from |-> NoPath, importPath |-> NoPath]

startsWith(p, prefix) ==
    /\ Len(prefix) <= Len(p)
    /\ SubSeq(p, 1, Len(prefix)) = prefix

norm(p) == [i \in 1..Len(p) |-> IF p[i] = "\\" THEN SEP ELSE p[i]]

\* the tracked source tree: s/a.ts, s/b.ts (imports ./a), t/b.ts (imports ../s/b)
FileA == << "s", "/", "a", ".ts" >>
FileB == << "s", "/", "b", ".ts" >>
FileT == << "t", "/", "b", ".ts" >>
Files == { FileA, FileB, FileT }

\* the same paths as a watcher on another platform spells them
RawPaths == Files \cup { << "s", "\\", "a", ".ts" >> }

Dirs == { << "s" >>, << "t" >> }

\* the import specifiers in each file's text, by the file they denote
Imports(f) ==
    IF f = FileB THEN { FileA }
    ELSE IF f = FileT THEN { FileB }
    ELSE {}

Range(s) == { s[i] : i \in 1..Len(s) }

\* the order in which a scan of the directories lists the files; the Sets of
\* the program, filled in that order, are iterated in it too
ScanOrder == << FileA, FileB, FileT >>

\* the sequence of the members of S in the order ord
InOrder(S, ord) == SelectSeq(ord, LAMBDA f : f \in S)

-----------------------------------------------------------------------------
(* File roles and the change classifier *)

\* the index of the last separator of p, 0 when there is none
LastSep(p) ==
    LET idx == { i \in 1..Len(p) : p[i] = SEP }
    IN  IF idx = {} THEN 0 ELSE CHOOSE i \in idx : \A j \in idx : j <= i

BaseName(p) == SubSeq(p, LastSep(p) + 1, Len(p))

IsExtToken(t) == t \in { ".ts", ".js", ".mjs", ".config", ".spec" }

\* path.extname: the last extension token of the base name, "" when there is none
extname(p) ==
    LET base == BaseName(p)
    IN  IF Len(base) >= 2 /\ IsExtToken(base[Len(base)]) THEN base[Len(base)] ELSE ""

isTestFile(filePath) == startsWith(norm(filePath), config.testDir)

\* a role decided by the file's extension instead of its root
isSourceFileByExtension(filePath) == extname(filePath) \in { ".ts", ".js", ".mjs" }

isSourceFile(filePath) == startsWith(norm(filePath), config.srcDir)

\* the directory segments of p that are a single token
HasDirSegment(p, name) ==
    \E i \in 1..Len(p) :
        /\ p[i] = name
        /\ i < Len(p) /\ p[i + 1] = SEP
        /\ (i = 1 \/ p[i - 1] = SEP)

\* picomatch.isMatch(p, pattern) for the six default critical patterns and the added ones
matchesCriticalPattern(p) ==
    LET base == BaseName(p) IN
    \/ HasDirSegment(p, "config")                         \* **/config/**
    \/ HasDirSegment(p, "setup")                          \* **/setup/**
    \/ \E i \in 2..Len(base) :                            \* **/*.config.*
          base[i] = ".config" /\ i < Len(base) /\ ~IsExtToken(base[1])
    \/ /\ Len(base) >= 2                                  \* **/bootstrap.* **/main.* **/index.*
       /\ base[1] \in { "bootstrap", "main", "index" } \cup criticalSourcePatterns
       /\ IsExtToken(base[2])

isCriticalSourceFile(filePath) ==
    IF ~isSourceFile(filePath) THEN FALSE
    ELSE matchesCriticalPattern(norm(filePath))

UpdateTypes == { "update", "full-reload", "test-update" }
ChangeTypes == { "add", "change", "unlink", "addDir", "unlinkDir" }
Strategies == { "smart", "always-reload", "never-reload" }

\* a modification classified without the test for critical files
modificationStrategyNoCritical(hasSourceChanges, hasCriticalChanges) ==
    IF hasSourceChanges
    THEN IF sourceChangeStrategy = "always-reload"
         THEN [type |-> "full-reload", reason |-> "Source changed - always-reload strategy"]
         ELSE IF sourceChangeStrategy = "never-reload"
         THEN [type |-> "update", reason |-> "Source changed - never-reload strategy"]
         ELSE [type |-> "update", reason |-> "Source changed - incremental update"]
    ELSE [type |-> "update", reason |-> "General update"]

\* determineUpdateStrategy from "Source file modification - apply strategy" on
modificationStrategy(hasSourceChanges, hasCriticalChanges) ==
    IF hasSourceChanges
    THEN IF sourceChangeStrategy = "always-reload"
         THEN [type |-> "full-reload", reason |-> "Source changed - always-reload strategy"]
         ELSE IF sourceChangeStrategy = "never-reload"
         THEN [type |-> "update", reason |-> "Source changed - never-reload strategy"]
         ELSE IF hasCriticalChanges
         THEN [type |-> "full-reload", reason |-> "Critical source file changed"]
         ELSE [type |-> "update", reason |-> "Source changed - incremental update"]
    ELSE [type |-> "update", reason |-> "General update"]

\* the classifier with the test for a removal before the test for a test-only change
determineUpdateStrategyRemovalFirst(changedFiles, changeType) ==
    LET hasSourceChanges == \E f \in changedFiles : isSourceFile(f)
        hasTestChanges == \E f \in changedFiles : isTestFile(f)
        hasCriticalChanges == \E f \in changedFiles : isCriticalSourceFile(f)
    IN
    IF changeType \in { "unlink", "unlinkDir" }
    THEN IF hasCriticalChanges
         THEN [type |-> "full-reload", reason |-> "Critical source file/directory removed"]
         ELSE [type |-> "update", reason |-> "Source file/directory removed - updating dependents"]
    ELSE IF ~hasSourceChanges /\ hasTestChanges
    THEN [type |-> "test-update", reason |-> "Test files changed - incremental update"]
    ELSE IF changeType \in { "add", "addDir" }
    THEN [type |-> "update", reason |-> "Source file/directory added - building new modules"]
    ELSE modificationStrategy(hasSourceChanges, hasCriticalChanges)

determineUpdateStrategy(changedFiles, changeType) ==
    LET hasSourceChanges == \E f \in changedFiles : isSourceFile(f)
        hasTestChanges == \E f \in changedFiles : isTestFile(f)
        hasCriticalChanges == \E f \in changedFiles : isCriticalSourceFile(f)
    IN
    IF ~hasSourceChanges /\ hasTestChanges
    THEN [type |-> "test-update", reason |-> "Test files changed - incremental update"]
    ELSE IF changeType \in { "unlink", "unlinkDir" }
    THEN IF hasCriticalChanges
         THEN [type |-> "full-reload", reason |-> "Critical source file/directory removed"]
         ELSE [type |-> "update", reason |-> "Source file/directory removed - updating dependents"]
    ELSE IF changeType \in { "add", "addDir" }
    THEN [type |-> "update", reason |-> "Source file/directory added - building new modules"]
    ELSE modificationStrategy(hasSourceChanges, hasCriticalChanges)

-----------------------------------------------------------------------------
(* The file system and path arithmetic *)

existsSync(f) == f \in disk

\* the segments of a path, each a token sequence
Segments(p) ==
    LET RECURSIVE split(_, _)
        split(rest, acc) ==
            IF rest = << >> THEN << acc >>
            ELSE IF Head(rest) = SEP THEN << acc >> \o split(Tail(rest), << >>)
            ELSE split(Tail(rest), Append(acc, Head(rest)))
    IN SelectSeq(split(p, << >>), LAMBDA seg : seg # << >>)

Join(segs) ==
    LET RECURSIVE join(_)
        join(ss) == IF ss = << >> THEN << >>
                    ELSE IF Len(ss) = 1 THEN ss[1]
                    ELSE ss[1] \o << SEP >> \o join(Tail(ss))
    IN join(segs)

\* path.relative(from, to) for paths without . and .. segments
relative(from, to) ==
    LET a == Segments(from)
        b == Segments(to)
        same == { n \in 0..Len(a) : n <= Len(b) /\ SubSeq(a, 1, n) = SubSeq(b, 1, n) }
        common == CHOOSE n \in same : \A k \in same : k <= n
        ups == [i \in 1..(Len(a) - common) |-> << ".." >>]
    IN Join(ups \o SubSeq(b, common + 1, Len(b)))

\* String.replace(ext, '.js'): the first occurrence only; an empty ext matches at the start
replaceFirst(p, ext, by) ==
    IF ext = "" THEN << by >> \o p
    ELSE LET hits == { i \in 1..Len(p) : p[i] = ext }
         IN  IF hits = {} THEN p
             ELSE LET first == CHOOSE i \in hits : \A j \in hits : i <= j
                  IN  [i \in 1..Len(p) |-> IF i = first THEN by ELSE p[i]]

getOutputName(filePath) ==
    LET rel == IF startsWith(filePath, norm(config.testDir))
               THEN relative(config.testDir, filePath)
               ELSE relative(norm(config.srcDir), filePath)
        named == replaceFirst(norm(rel), extname(filePath), ".js")
    IN  [i \in 1..Len(named) |-> IF named[i] \in { SEP, "\\" } THEN "_" ELSE named[i]]

\* the artifact the bundler writes for an entry point: buildInputMap keys it by the path
\* relative to its root, without the extension (.spec.ext and a .spec suffix for a test)
stripSuffix(p, suffix) ==
    IF Len(p) >= Len(suffix) /\ SubSeq(p, Len(p) - Len(suffix) + 1, Len(p)) = suffix
    THEN SubSeq(p, 1, Len(p) - Len(suffix)) ELSE p

bundlerOutputName(file) ==
    LET flat(p) == [i \in 1..Len(p) |-> IF p[i] \in { SEP, "\\" } THEN "_" ELSE p[i]]
        ext == IF Len(file) > 0 /\ file[Len(file)] \in { ".ts", ".js", ".mjs" }
               THEN << file[Len(file)] >> ELSE << >>
    IN  IF isSourceFile(file)
        THEN flat(stripSuffix(relative(config.srcDir, file), ext)) \o << ".js" >>
        ELSE flat(stripSuffix(relative(config.testDir, file), << ".spec" >> \o ext))
                \o << ".spec", ".js" >>

\* the artifact names the engine looks for
ReadNames == { getOutputName(f) : f \in Files }

matchesFilter(filePath) == extname(filePath) \in { ".ts", ".js", ".mjs" }

-----------------------------------------------------------------------------
(* The program's memory as one value, for the code that runs between awaits *)

Mem == [ allFiles |-> allFiles,
         rebuildQueue |-> rebuildQueue,
         directChanges |-> directChanges,
         dependencyGraph |-> dependencyGraph,
         reverseDependencyGraph |-> reverseDependencyGraph,
         isRebuilding |-> isRebuilding,
         rebuildPromise |-> rebuildPromise,
         drains |-> drains,
         awaiting |-> awaiting,
         resumed |-> resumed,
         outputs |-> outputs,
         log |-> {},
         ok |-> TRUE ]

\* the memory after a step of the engine; nothing of the engine runs in a process that
\* has ended
Store(m) ==
    /\ watcher # "exited"
    /\ m.ok
    /\ allFiles' = m.allFiles
    /\ rebuildQueue' = m.rebuildQueue
    /\ directChanges' = m.directChanges
    /\ dependencyGraph' = m.dependencyGraph
    /\ reverseDependencyGraph' = m.reverseDependencyGraph
    /\ isRebuilding' = m.isRebuilding
    /\ rebuildPromise' = m.rebuildPromise
    /\ drains' = m.drains
    /\ awaiting' = m.awaiting
    /\ resumed' = m.resumed
    /\ outputs' = m.outputs
    /\ emitted' = m.log

Get(map, k) == IF k \in DOMAIN map THEN map[k] ELSE {}

Put(map, k, v) == [x \in DOMAIN map \cup {k} |-> IF x = k THEN v ELSE map[x]]

Delete(map, k) == [x \in DOMAIN map \ {k} |-> map[x]]

Scrub(map, f) == [x \in DOMAIN map |-> map[x] \ {f}]

UpdateEvent(type, path, file, tests) ==
    [ev |-> "update", type |-> type, path |-> path, file |-> file, tests |-> tests]

ErrorEvent == [ev |-> "error", type |-> "", path |-> NoPath, file |-> NoPath, tests |-> {}]

RebuildEvent(type, direct) ==
    [ev |-> "rebuild", type |-> type, path |-> NoPath, file |-> NoPath, tests |-> direct]

\* console.error('Vite build failed:', buildError), by the error's code
BuildFailed(code) ==
    [ev |-> "build-failed", type |-> code, path |-> NoPath, file |-> NoPath, tests |-> {}]

\* a line on the console
Console(line) ==
    [ev |-> "console", type |-> line, path |-> NoPath, file |-> NoPath, tests |-> {}]

-----------------------------------------------------------------------------
(* The dependency graph *)

extractDependencies(filePath) ==
    IF ~existsSync(filePath) THEN {}
    ELSE { norm(d) : d \in { i \in Imports(filePath) : existsSync(i) } }

\* buildDependencyGraph, up to the await of one file: its old reverse edges go
bdgBefore(m, file) ==
    LET normalizedFile == norm(file)
        oldDeps == Get(m.dependencyGraph, normalizedFile)
        rev == m.reverseDependencyGraph
    IN  [m EXCEPT !.reverseDependencyGraph =
            [k \in DOMAIN rev |-> IF k \in oldDeps THEN rev[k] \ {normalizedFile} ELSE rev[k]]]

\* buildDependencyGraph, after the await of one file: its new edges are recorded
bdgAfter(m, file, newDeps) ==
    LET normalizedFile == norm(file)
        rev == m.reverseDependencyGraph
    IN  [m EXCEPT
            !.dependencyGraph = Put(m.dependencyGraph, normalizedFile, newDeps),
            !.reverseDependencyGraph =
                [k \in DOMAIN rev \cup newDeps |->
                    IF k \in newDeps THEN Get(rev, k) \cup {normalizedFile} ELSE rev[k]]]

getFilesToRebuild(m, changedFile) ==
    IF rebuildMode = "all"
    THEN { f \in Range(m.allFiles) : existsSync(f) }
    ELSE LET RECURSIVE visit(_)
             visit(visited) ==
                 LET more == { d \in UNION { Get(m.reverseDependencyGraph, v) : v \in visited } :
                                 existsSync(d) }
                 IN  IF more \subseteq visited THEN visited ELSE visit(visited \cup more)
         IN  { f \in visit({ norm(changedFile) }) : existsSync(f) }

\* a dependent is queued for the traversal whatever the disk holds
pushableAlways(d) == TRUE

\* line 1049: only a dependent that exists is queued for the traversal
pushable(d) == existsSync(d)

\* the iterations the while loop of getFilesToRebuild can need: one for the start and
\* one for each edge, since a file's dependents are pushed once
TraverseSteps == 1 + Cardinality(Files) * Cardinality(Files)

\* getFilesToRebuild as the source runs it: the queue, the visited set and the result,
\* one iteration of the while loop (lines 1035-1055) per call of loop; done is FALSE
\* when the loop has not emptied the queue within TraverseSteps iterations
traverse(m, changedFile) ==
    LET RECURSIVE loop(_, _, _, _)
        loop(queue, visited, filesToRebuild, left) ==
            IF queue = << >> THEN [done |-> TRUE, files |-> filesToRebuild]
            ELSE IF left = 0 THEN [done |-> FALSE, files |-> filesToRebuild]
            ELSE LET current == Head(queue)
                     dependents == Get(m.reverseDependencyGraph, current)
                 IN  IF current \in visited
                     THEN loop(Tail(queue), visited, filesToRebuild, left - 1)
                     ELSE loop(Tail(queue) \o InOrder({ d \in dependents : pushable(d) }, ScanOrder),
                               visited \cup { current },
                               IF existsSync(current) THEN filesToRebuild \cup { current }
                               ELSE filesToRebuild,
                               left - 1)
    IN  IF rebuildMode = "all"
        THEN [done |-> TRUE, files |-> { f \in Range(m.allFiles) : existsSync(f) }]
        ELSE loop(<< norm(changedFile) >>, {}, {}, TraverseSteps)

\* lines 1354-1364 of rebuildAll: the union of the dependents of the changed files
rebuildSet(m, changedFiles) ==
    UNION { { f \in getFilesToRebuild(m, file) : existsSync(f) } : file \in changedFiles }

\* no traversal has run
NotTraversed == [ran |-> FALSE, done |-> FALSE, files |-> {}, each |-> {}]

\* every dependent counts as a test
getAffectedTestsUnfiltered(m, sourceFile) == getFilesToRebuild(m, sourceFile)

getAffectedTests(m, sourceFile) ==
    { f \in getFilesToRebuild(m, sourceFile) : isTestFile(f) /\ existsSync(f) }

-----------------------------------------------------------------------------
(* The rebuild scheduler: queueRebuild and rebuildAll *)

Slots == 1..MaxDrains

\* a slot without a rebuildAll invocation
IdleDrain ==
    [ pc |-> "idle", changed |-> {}, direct |-> {}, rebuilt |-> {}, entries |-> {},
      cur |-> NoPath, deps |-> {}, rest |-> << >>, skipped |-> {}, invocations |-> 0 ]

\* rebuildAll has returned or thrown; the .catch and .finally of queueRebuild are pending
Settled(m, k, thrown) ==
    [m EXCEPT !.drains[k] = [IdleDrain EXCEPT !.pc = IF thrown THEN "catch" ELSE "finally"]]

\* neither collection is cleared
clearQueuesKeep(m) == m

\* the queue is cleared and the direct changes are kept
clearQueueOnly(m) == [m EXCEPT !.rebuildQueue = {}]

\* rebuildQueue.clear() and directChanges.clear() (lines 1338 and 1347)
clearQueues(m) == [m EXCEPT !.rebuildQueue = {}, !.directChanges = {}]

\* one pass of the while loop of rebuildAll, from its test to the first await
rebuildAll(m, k) ==
    IF m.rebuildQueue = {} THEN Settled(m, k, FALSE)
    ELSE
    LET changedFiles == { f \in m.rebuildQueue : existsSync(f) }
        directChangedFiles == { f \in m.directChanges : existsSync(f) }
        m1 == clearQueues(m)
        filesToRebuild == rebuildSet(m1, changedFiles)
        validSourceFiles == { f \in filesToRebuild : isSourceFile(f) /\ existsSync(f) }
        validTestFiles == { f \in filesToRebuild : isTestFile(f) /\ existsSync(f) }
        existingFiles == InOrder({ f \in filesToRebuild : existsSync(f) }, ScanOrder)
    IN
    IF changedFiles = {} \/ filesToRebuild = {} \/ (validSourceFiles = {} /\ validTestFiles = {})
    THEN Settled(m1, k, FALSE)     \* continue: the queue was just cleared, so the loop ends
    ELSE [bdgBefore(m1, Head(existingFiles)) EXCEPT
            !.drains[k] =
                [ pc |-> "bdg",
                  changed |-> changedFiles,
                  direct |-> directChangedFiles,
                  rebuilt |-> filesToRebuild,
                  entries |-> validSourceFiles \cup validTestFiles,
                  cur |-> Head(existingFiles),
                  deps |-> extractDependencies(Head(existingFiles)),
                  rest |-> Tail(existingFiles),
                  skipped |-> m.rebuildQueue \ changedFiles,
                  invocations |-> 0 ]]

\* the flag is not consulted
mayStartRebuildAlways(m) == TRUE

\* the test of line 1310: no rebuild is running
mayStartRebuild(m) == ~m.isRebuilding

\* queueRebuild from line 1310: start a drain unless one is running
queueRebuildResume(m) ==
    IF mayStartRebuild(m)
    THEN LET free == { k \in Slots : m.drains[k].pc = "idle" }
         IN  IF free = {} THEN [m EXCEPT !.ok = FALSE]
             ELSE LET k == CHOOSE x \in free : \A y \in free : x <= y
                  IN  [rebuildAll([m EXCEPT !.isRebuilding = TRUE], k) EXCEPT
                          !.rebuildPromise = k]
    ELSE m

queueRebuild(m, filePath, changeType) ==
    LET normalized == norm(filePath) IN
    IF changeType # "unlink" /\ ~existsSync(normalized) THEN m
    ELSE LET m1 == [m EXCEPT !.directChanges = @ \cup {normalized},
                             !.rebuildQueue = @ \cup {normalized}]
         IN  IF m1.rebuildPromise # 0
             THEN [m1 EXCEPT !.awaiting[m1.rebuildPromise] = @ + 1,
                             !.ok = m1.ok /\ m1.awaiting[m1.rebuildPromise] + m1.resumed < MaxWaiters]
             ELSE queueRebuildResume(m1)

\* files.forEach(f => this.queueRebuild(f, changeType))
queueRebuildEach(m, files, changeType) ==
    LET RECURSIVE each(_, _)
        each(mm, fs) == IF fs = << >> THEN mm
                        ELSE each(queueRebuild(mm, Head(fs), changeType), Tail(fs))
    IN each(m, files)

-----------------------------------------------------------------------------
(* The event loop *)

\* a promise continuation is ready to run: a chained handler operation, a caller of
\* queueRebuild whose promise settled, a rebuildAll between two awaits of
\* buildDependencyGraph, at the await of getViteBuild (which reads nothing of the
\* state, and whose import is cached) or before its .catch/.finally, or the handler of
\* the ready event inside buildDependencyGraph
continuationPending ==
    \/ operationQueue # << >>
    \/ resumed > 0
    \/ \E k \in Slots : drains[k].pc \in { "bdg", "getVite", "catch", "finally" }
    \/ startup.pc = "bdg"

\* the watcher may call a handler: from a new callback, or again from the same one
mayDeliver == watcher = "open" /\ (inCallback \/ ~continuationPending)

-----------------------------------------------------------------------------
(* The steps of a rebuildAll invocation *)

Fixed == UNCHANGED << config, rebuildMode, sourceChangeStrategy, criticalSourcePatterns, clsFiles, clsKind, clsResult,
                      trvFiles, trvResult, watcher, startup, rsvImport, rsvResult >>

\* a step of the program
Unchanged == Fixed /\ UNCHANGED budget

\* a step of the environment
Spend == Fixed /\ budget > 0 /\ budget' = budget - 1

\* the await of extractDependencies inside buildDependencyGraph returns (line 939)
DrainGraphStep(k) ==
    /\ drains[k].pc = "bdg"
    /\ LET d == drains[k]
           m1 == bdgAfter(Mem, d.cur, d.deps)
       IN  IF d.rest = << >>
           THEN Store([m1 EXCEPT !.drains[k] =
                            [d EXCEPT !.pc = "getVite", !.cur = NoPath, !.deps = {}]])
           ELSE Store([bdgBefore(m1, Head(d.rest)) EXCEPT !.drains[k] =
                            [d EXCEPT !.cur = Head(d.rest),
                                      !.deps = extractDependencies(Head(d.rest)),
                                      !.rest = Tail(d.rest)]])
    /\ inCallback' = FALSE
    /\ UNCHANGED << disk, operationQueue >>
    /\ Unchanged

\* the bundler is invoked (line 1401)
StartBuild(k) ==
    /\ drains[k].pc = "getVite"
    /\ Store([Mem EXCEPT !.drains[k].pc = "build", !.drains[k].invocations = 1])
    /\ inCallback' = FALSE
    /\ UNCHANGED << disk, operationQueue >>
    /\ Unchanged

\* lines 1430-1467: one update per rebuilt file whose artifact exists, then the statistics
emitUpdates(m, d) ==
    LET strategy == determineUpdateStrategy(d.direct, "change")
        affectedTests == UNION { getAffectedTests(m, f) : f \in { x \in d.direct : isSourceFile(x) } }
        updates == { UpdateEvent(strategy.type, getOutputName(file), file, affectedTests) :
                        file \in { f \in d.rebuilt : getOutputName(f) \in m.outputs } }
        updateType == IF \E f \in d.direct : isSourceFile(f) THEN "source-change"
                      ELSE IF \E f \in d.direct : isTestFile(f) THEN "test-only"
                      ELSE "full"
    IN  [m EXCEPT !.log = @ \cup updates \cup { RebuildEvent(updateType, d.direct) }]

\* the bundler returns artifacts; the cycle ends and the loop goes on
BuildSucceeds(k) ==
    /\ ~continuationPending
    /\ drains[k].pc \in { "build", "retry" }
    /\ LET written == { bundlerOutputName(f) : f \in drains[k].entries } \cap ReadNames
       IN  Store(rebuildAll(emitUpdates([Mem EXCEPT !.outputs = @ \cup written], drains[k]), k))
    /\ inCallback' = FALSE
    /\ UNCHANGED << disk, operationQueue >>
    /\ Unchanged

\* the codes of the errors a bundler invocation throws
BuildErrors == { "UNRESOLVED_ENTRY", "PARSE_ERROR" }

\* every failure is taken for a missing entry point
retriableAlways(code) == TRUE

\* the test of line 1406
retriable(code) == code = "UNRESOLVED_ENTRY"

\* an invocation throws (lines 1403-1427): after the first one a missing entry point is
\* retried with the entries that still exist, or the cycle is skipped when none does;
\* any other failure, and any failure of the retry, is reported and thrown
BuildThrows(k, code) ==
    /\ ~continuationPending
    /\ drains[k].pc \in { "build", "retry" }
    /\ LET failed == [Mem EXCEPT !.log = { BuildFailed(code) }]
           finalFiles == { f \in drains[k].entries : existsSync(f) }
       IN  IF drains[k].pc = "build" /\ retriable(code)
           THEN IF finalFiles = {}
                THEN Store(rebuildAll([failed EXCEPT !.log = @ \cup { Console("skipping build") }], k))
                ELSE Store([failed EXCEPT !.log = @ \cup { Console("retrying build") },
                                          !.drains[k].pc = "retry",
                                          !.drains[k].entries = finalFiles,
                                          !.drains[k].invocations = 2])
           ELSE Store(Settled([failed EXCEPT !.log = @ \cup { ErrorEvent }], k, TRUE))
    /\ inCallback' = FALSE
    /\ UNCHANGED << disk, operationQueue >>
    /\ Unchanged

\* the promise is forgotten but the flag stays set
releaseLockKeepFlag(m) == [m EXCEPT !.rebuildPromise = 0]

\* the callback of .finally (lines 1316-1317)
releaseLock(m) == [m EXCEPT !.isRebuilding = FALSE, !.rebuildPromise = 0]

\* the .catch of queueRebuild (lines 1312-1315)
RebuildCatch(k) ==
    /\ drains[k].pc = "catch"
    /\ Store([Mem EXCEPT !.log = { ErrorEvent }, !.drains[k].pc = "finally"])
    /\ inCallback' = FALSE
    /\ UNCHANGED << disk, operationQueue >>
    /\ Unchanged

\* the .finally of queueRebuild (lines 1315-1318); the callers awaiting the promise resume
RebuildFinally(k) ==
    /\ drains[k].pc = "finally"
    /\ Store([releaseLock(Mem) EXCEPT !.resumed = @ + awaiting[k],
                                      !.awaiting[k] = 0,
                                      !.drains[k] = IdleDrain])
    /\ inCallback' = FALSE
    /\ UNCHANGED << disk, operationQueue >>
    /\ Unchanged

\* the caller returns once the promise it awaited has settled
afterAwaitReturn(m) == m

\* queueRebuild after the await of line 1307: lines 1310-1321
afterAwait(m) == queueRebuildResume(m)

\* a caller of queueRebuild continues after the await of line 1307
QueueRebuildContinue ==
    /\ resumed > 0
    /\ Store(afterAwait([Mem EXCEPT !.resumed = @ - 1]))
    /\ inCallback' = FALSE
    /\ UNCHANGED << disk, operationQueue >>
    /\ Unchanged

\* the watcher's change event (lines 1075-1078)
WatcherChange(p) ==
    /\ mayDeliver
    /\ matchesFilter(norm(p))
    /\ Store(queueRebuild(Mem, norm(p), "change"))
    /\ UNCHANGED << disk, operationQueue >>
    /\ Spend
    /\ inCallback' = continuationPending'

-----------------------------------------------------------------------------
(* The add/remove handlers, chained on this.operationQueue *)

Operation(kind, path) ==
    [ kind |-> kind, path |-> path, pc |-> "queued",
      cur |-> NoPath, deps |-> {}, rest |-> << >>, files |-> << >> ]

\* the body runs on arrival
chainedNever(i) == TRUE

\* operationQueue.then(...): the body runs once every operation chained before it has settled
chained(i) == i = 1

Without(q, i) == SubSeq(q, 1, i - 1) \o SubSeq(q, i + 1, Len(q))

\* the directory a handler reports: relative to the root it lies under
reportedPath(p) ==
    IF startsWith(p, config.testDir) THEN norm(relative(config.testDir, p))
    ELSE norm(relative(config.srcDir, p))

\* handleFileRemove, lines 1142-1158: the file leaves the queues, the tracked set and
\* both graphs
removeFile(m, filePath) ==
    [m EXCEPT
        !.rebuildQueue = @ \ { filePath },
        !.directChanges = @ \ { filePath },
        !.allFiles = SelectSeq(@, LAMBDA f : f # filePath),
        !.dependencyGraph = Scrub(Delete(@, filePath), filePath),
        !.reverseDependencyGraph = Scrub(Delete(@, filePath), filePath)]

\* handleFileRemove when fs.rmSync of the artifact throws (line 1170): the rest of the
\* body is skipped and the .catch of the operation logs the error (lines 1185-1187)
handleFileRemoveThrows(m, path) ==
    [removeFile(m, norm(path)) EXCEPT !.log = @ \cup { Console("Error in handleFileRemove") }]

\* handleFileRemove, the body (lines 1137-1184)
handleFileRemove(m, path) ==
    LET filePath == norm(path)
        affectedFiles == { d \in Get(m.reverseDependencyGraph, filePath) : existsSync(d) }
        strategy == determineUpdateStrategy({ filePath }, "unlink")
        m1 == [removeFile(m, filePath) EXCEPT
                 !.outputs = @ \ { getOutputName(filePath) },
                 !.log = @ \cup { UpdateEvent(strategy.type, getOutputName(filePath), filePath,
                                     IF isSourceFile(filePath)
                                     THEN { f \in affectedFiles : isTestFile(f) } ELSE {}) }]
    IN  IF rebuildMode = "selective" /\ affectedFiles # {}
        THEN queueRebuildEach(m1, InOrder(affectedFiles, ScanOrder), "change")
        ELSE m1

\* the files of the tracked set under a directory (line 1246)
trackedUnder(m, dirPath) ==
    SelectSeq(m.allFiles, LAMBDA f : startsWith(f, dirPath \o << SEP >>) \/ f = dirPath)

\* handleDirectoryRemove, the body (lines 1240-1285)
handleDirectoryRemove(m, path) ==
    LET dirPath == norm(path)
        removedFiles == trackedUnder(m, dirPath)
        RECURSIVE purge(_, _, _)
        purge(mm, files, affected) ==
            IF files = << >> THEN [m |-> mm, affected |-> affected]
            ELSE LET file == Head(files)
                 IN  purge([mm EXCEPT
                              !.rebuildQueue = @ \ { file },
                              !.directChanges = @ \ { file },
                              !.dependencyGraph = Scrub(Delete(@, file), file),
                              !.reverseDependencyGraph = Scrub(Delete(@, file), file)],
                           Tail(files),
                           affected \cup { d \in Get(mm.reverseDependencyGraph, file) : existsSync(d) })
        purged == purge(m, removedFiles, {})
        affectedFiles == purged.affected
        strategy == determineUpdateStrategy(Range(removedFiles), "unlinkDir")
        m1 == [purged.m EXCEPT
                 !.allFiles = SelectSeq(@, LAMBDA f : f \notin Range(removedFiles)),
                 !.log = @ \cup { UpdateEvent(strategy.type, reportedPath(dirPath), dirPath,
                                     { f \in affectedFiles : isTestFile(f) }) }]
    IN  IF rebuildMode = "selective" /\ affectedFiles # {}
        THEN queueRebuildEach(m1, InOrder(affectedFiles, ScanOrder), "change")
        ELSE m1

\* the files a scan of a new directory finds (lines 1200-1203)
scanDirectory(dirPath) ==
    { f \in disk : startsWith(f, dirPath \o << SEP >>) /\ matchesFilter(f) }

\* an operation enters buildDependencyGraph(files) and suspends at its first await
opGraphBegin(m, op, files) ==
    LET existingFiles == SelectSeq(files, existsSync)
    IN  IF existingFiles = << >>
        THEN [m |-> m, op |-> [op EXCEPT !.pc = "bdg", !.files = files]]
        ELSE [m |-> bdgBefore(m, Head(existingFiles)),
              op |-> [op EXCEPT !.pc = "bdg", !.files = files,
                                !.cur = Head(existingFiles),
                                !.deps = extractDependencies(Head(existingFiles)),
                                !.rest = Tail(existingFiles)]]

\* the body of an operation up to its first await; op = the operation if it suspended
opBegin(m, op) ==
    IF op.kind = "unlink" THEN [m |-> handleFileRemove(m, op.path), done |-> TRUE, op |-> op]
    ELSE IF op.kind = "unlinkDir" THEN [m |-> handleDirectoryRemove(m, op.path), done |-> TRUE, op |-> op]
    ELSE IF op.kind = "add"
    THEN LET filePath == norm(op.path)
         IN  IF filePath \in Range(m.allFiles) THEN [m |-> m, done |-> TRUE, op |-> op]
             ELSE LET g == opGraphBegin([m EXCEPT !.allFiles = Append(@, filePath)],
                                        op, << filePath >>)
                  IN  [m |-> g.m, done |-> FALSE, op |-> g.op]
    ELSE LET dirPath == norm(op.path)
             filesToProcess == InOrder(scanDirectory(dirPath) \ Range(m.allFiles), ScanOrder)
         IN  IF filesToProcess = << >> THEN [m |-> m, done |-> TRUE, op |-> op]
             ELSE LET g == opGraphBegin([m EXCEPT !.allFiles = @ \o filesToProcess],
                                        op, filesToProcess)
                  IN  [m |-> g.m, done |-> FALSE, op |-> g.op]

\* the body of an add operation after buildDependencyGraph (lines 1125, 1219-1228)
opEnd(m, op) ==
    IF op.kind = "add" THEN queueRebuild(m, norm(op.path), "add")
    ELSE LET strategy == determineUpdateStrategy(Range(op.files), "addDir")
         IN  queueRebuildEach(
                 [m EXCEPT !.log = @ \cup { UpdateEvent(strategy.type, reportedPath(norm(op.path)),
                                                        norm(op.path), {}) }],
                 op.files, "add")

\* a handler chains its body on the operation queue
Chain(kind, p) ==
    /\ mayDeliver
    /\ Len(operationQueue) < MaxOps
    /\ inCallback' = TRUE
    /\ operationQueue' = Append(operationQueue, Operation(kind, p))
    /\ emitted' = {}
    /\ UNCHANGED << disk, outputs, allFiles, rebuildQueue, directChanges, dependencyGraph,
                    reverseDependencyGraph, isRebuilding, rebuildPromise, drains, awaiting,
                    resumed >>
    /\ Spend

WatcherAdd(p) == matchesFilter(norm(p)) /\ Chain("add", norm(p))

WatcherUnlink(p) == matchesFilter(norm(p)) /\ Chain("unlink", norm(p))

WatcherAddDir(d) == Chain("addDir", norm(d))

WatcherUnlinkDir(d) == Chain("unlinkDir", norm(d))

\* the body of the operation at position i starts
OperationStart(i) ==
    /\ i \in 1..Len(operationQueue)
    /\ operationQueue[i].pc = "queued"
    /\ chained(i)
    /\ LET r == opBegin(Mem, operationQueue[i])
       IN  /\ Store(r.m)
           /\ operationQueue' = IF r.done THEN Without(operationQueue, i)
                                ELSE [operationQueue EXCEPT ![i] = r.op]
    /\ inCallback' = FALSE
    /\ UNCHANGED disk
    /\ Unchanged

\* the rejection is not handled: the operation stays first in the chain, rejected
uncaught(ops, i) == [ops EXCEPT ![i].pc = "rejected"]

\* the .catch of an operation (lines 1185-1187) returns a promise that is fulfilled: the
\* operation has settled and the next one is first
caught(ops, i) == Without(ops, i)

\* the body of the first operation throws: the removal of the artifact fails (the file
\* is locked, or the process may not delete it); the .catch settles the operation
OperationThrows(i) ==
    /\ i \in 1..Len(operationQueue)
    /\ operationQueue[i].pc = "queued"
    /\ chained(i)
    /\ operationQueue[i].kind = "unlink"
    /\ getOutputName(norm(operationQueue[i].path)) \in outputs
    /\ Store(handleFileRemoveThrows(Mem, operationQueue[i].path))
    /\ operationQueue' = caught(operationQueue, i)
    /\ inCallback' = FALSE
    /\ UNCHANGED disk
    /\ Unchanged

\* the body of an operation from the await inside buildDependencyGraph to the next one
opResume(m, op) ==
    LET m1 == IF op.cur = NoPath THEN m ELSE bdgAfter(m, op.cur, op.deps)
    IN  IF op.rest = << >>
        THEN [m |-> opEnd(m1, op), done |-> TRUE, op |-> op]
        ELSE [m |-> bdgBefore(m1, Head(op.rest)), done |-> FALSE,
              op |-> [op EXCEPT !.cur = Head(op.rest),
                                !.deps = extractDependencies(Head(op.rest)),
                                !.rest = Tail(op.rest)]]

\* the await inside buildDependencyGraph returns to the operation at position i
OperationGraphStep(i) ==
    /\ i \in 1..Len(operationQueue)
    /\ operationQueue[i].pc = "bdg"
    /\ LET r == opResume(Mem, operationQueue[i])
       IN  /\ Store(r.m)
           /\ operationQueue' = IF r.done THEN Without(operationQueue, i)
                                ELSE [operationQueue EXCEPT ![i] = r.op]
    /\ inCallback' = FALSE
    /\ UNCHANGED disk
    /\ Unchanged

-----------------------------------------------------------------------------
(* The environment: other processes create and delete files *)

DiskCreate(f) ==
    /\ f \notin disk
    /\ disk' = disk \cup {f}
    /\ emitted' = {}
    /\ UNCHANGED << outputs, allFiles, rebuildQueue, directChanges, dependencyGraph,
                    reverseDependencyGraph, isRebuilding, rebuildPromise, drains, awaiting,
                    resumed, operationQueue, inCallback >>
    /\ Spend

DiskDelete(f) ==
    /\ f \in disk
    /\ disk' = disk \ {f}
    /\ emitted' = {}
    /\ UNCHANGED << outputs, allFiles, rebuildQueue, directChanges, dependencyGraph,
                    reverseDependencyGraph, isRebuilding, rebuildPromise, drains, awaiting,
                    resumed, operationQueue, inCallback >>
    /\ Spend

-----------------------------------------------------------------------------
(* The specification of the engine *)

\* the handler of the ready event has returned
StartupDone == [pc |-> "done", cur |-> NoPath, deps |-> {}, rest |-> << >>]

\* the engine at rest: nothing queued, no drain, no operation
AtRest ==
    /\ rebuildQueue = {}
    /\ directChanges = {}
    /\ isRebuilding = FALSE
    /\ rebuildPromise = 0
    /\ drains = [k \in Slots |-> IdleDrain]
    /\ awaiting = [k \in Slots |-> 0]
    /\ resumed = 0
    /\ operationQueue = << >>
    /\ emitted = {}
    /\ inCallback = FALSE
    /\ watcher = "open"
    /\ startup = StartupDone

\* the state once the watcher is ready: the tree is scanned and the graph is built
Scanned ==
    /\ config = [srcDir |-> << "s" >>, testDir |-> << "t" >>]
    /\ rebuildMode \in { "selective", "all" }
    /\ disk = Files
    /\ outputs = { getOutputName(f) : f \in Files }
    /\ allFiles = ScanOrder
    /\ dependencyGraph = [f \in Files |-> Imports(f)]
    /\ reverseDependencyGraph = [f \in { FileA, FileB } |-> { g \in Files : f \in Imports(g) }]
    /\ AtRest
    /\ clsFiles = {}
    /\ clsKind = "change"
    /\ clsResult = determineUpdateStrategy({}, "change")
    /\ trvFiles = {}
    /\ trvResult = NotTraversed
    /\ rsvImport = NoImport
    /\ rsvResult = NoPath

\* the default options
Ready == Scanned /\ sourceChangeStrategy = "smart" /\ criticalSourcePatterns = {}

Init == Ready /\ budget = MaxEvents

Next ==
    \/ \E p \in RawPaths : WatcherChange(p)
    \/ \E p \in RawPaths : WatcherAdd(p)
    \/ \E p \in RawPaths : WatcherUnlink(p)
    \/ \E d \in Dirs : WatcherAddDir(d)
    \/ \E d \in Dirs : WatcherUnlinkDir(d)
    \/ \E i \in 1..MaxOps : OperationStart(i)
    \/ \E i \in 1..MaxOps : OperationThrows(i)
    \/ \E i \in 1..MaxOps : OperationGraphStep(i)
    \/ \E k \in Slots : DrainGraphStep(k)
    \/ \E k \in Slots : StartBuild(k)
    \/ \E k \in Slots : BuildSucceeds(k)
    \/ \E k \in Slots : \E code \in BuildErrors : BuildThrows(k, code)
    \/ \E k \in Slots : RebuildCatch(k)
    \/ \E k \in Slots : RebuildFinally(k)
    \/ QueueRebuildContinue
    \/ \E f \in Files : DiskCreate(f)
    \/ \E f \in Files : DiskDelete(f)

Spec == Init /\ [][Next]_vars

\* a step of the program: a promise continuation runs or the bundler returns
Program ==
    \/ \E i \in 1..MaxOps : OperationStart(i)
    \/ \E i \in 1..MaxOps : OperationThrows(i)
    \/ \E i \in 1..MaxOps : OperationGraphStep(i)
    \/ \E k \in Slots : DrainGraphStep(k)
    \/ \E k \in Slots : StartBuild(k)
    \/ \E k \in Slots : BuildSucceeds(k)
    \/ \E k \in Slots : \E code \in BuildErrors : BuildThrows(k, code)
    \/ \E k \in Slots : RebuildCatch(k)
    \/ \E k \in Slots : RebuildFinally(k)
    \/ QueueRebuildContinue

\* the event loop runs every continuation that is ready, and every invocation of the
\* bundler returns, with artifacts or with an error
\* the enabling condition of Program, from the guards of its steps
ProgramReady ==
    /\ watcher # "exited"
    /\ \/ \E i \in 1..Len(operationQueue) :
             \/ operationQueue[i].pc = "queued" /\ chained(i) /\ opBegin(Mem, operationQueue[i]).m.ok
             \/ /\ operationQueue[i].pc = "queued" /\ chained(i)
                /\ operationQueue[i].kind = "unlink"
                /\ getOutputName(norm(operationQueue[i].path)) \in outputs
             \/ operationQueue[i].pc = "bdg" /\ opResume(Mem, operationQueue[i]).m.ok
       \/ \E k \in Slots : drains[k].pc \in { "bdg", "getVite", "catch", "finally" }
       \/ \E k \in Slots : drains[k].pc \in { "build", "retry" } /\ ~continuationPending
       \/ resumed > 0 /\ afterAwait([Mem EXCEPT !.resumed = @ - 1]).ok

\* weak fairness of Program, WF_vars(Program), written out by its definition with
\* ProgramReady for ENABLED <<Program>>_vars
ProgramFair == []<>(~ProgramReady) \/ []<><<Program>>_vars

InitFair == Ready /\ budget = MaxFairEvents

FairSpec == InitFair /\ [][Next]_vars /\ ProgramFair

\* every strategy, and b.* declared critical or not
InitStrategies ==
    /\ Scanned
    /\ sourceChangeStrategy \in Strategies
    /\ criticalSourcePatterns \in { {}, { "b" } }
    /\ budget = MaxFairEvents

SpecStrategies == InitStrategies /\ [][Next]_vars

\* the bounds of the model never hold back a step of the program: whenever an operation,
\* a caller of queueRebuild or a rebuildAll is unfinished, Program has a step
NeverHeldBack ==
    (operationQueue # << >> \/ resumed > 0 \/ \E k \in Slots : drains[k].pc # "idle")
        => ProgramReady

-----------------------------------------------------------------------------
(* Properties of the engine *)

\* C2: a file in the rebuild queue leaves it, taken by the snapshot of a cycle or
\* purged by a removal handler; so the queue is not non-empty for ever, also when
\* the cycle during which the file was queued fails
C2_EventuallyDrained ==
    \A f \in Files : (f \in rebuildQueue) ~> (f \notin rebuildQueue)

\* a cycle has failed while a caller of queueRebuild waits with its file in the queue
C2_Witness ==
    \E k \in Slots : drains[k].pc = "catch" /\ awaiting[k] >= 1 /\ rebuildQueue # {}

\* C6: a failure of the bundler that is not retried is emitted as an error event, and
\* from there the scheduler comes to rest: the lock released, no rebuildAll pending and
\* the queue drained
C6_FailureRecovers ==
    /\ [][ \A k \in Slots : (drains[k].pc \in { "build", "retry" } /\ drains'[k].pc = "catch")
                                => ErrorEvent \in emitted' ]_vars
    /\ (\E k \in Slots : drains[k].pc = "catch")
          ~> (~isRebuilding /\ rebuildPromise = 0 /\ rebuildQueue = {}
              /\ \A k \in Slots : drains[k].pc = "idle")

\* the error of a failed cycle has been emitted by the .catch as well, the lock is about
\* to be released and a file queued during the cycle waits for the next one
C6_Witness ==
    \E k \in Slots : drains[k].pc = "finally" /\ ErrorEvent \in emitted /\ rebuildQueue # {}

\* the slots whose rebuildAll is inside its loop
ActiveDrains == { k \in Slots : drains[k].pc \in { "bdg", "getVite", "build", "retry" } }

\* the slots whose rebuildAll awaits the bundler
InFlight == { k \in Slots : drains[k].pc \in { "build", "retry" } }

\* C1: at most one bundler invocation is in flight and at most one rebuildAll loop is
\* active, whatever events call queueRebuild while a drain runs
C1_SingleDrain ==
    /\ Cardinality(InFlight) <= 1
    /\ Cardinality(ActiveDrains) <= 1

\* two callers waited for a drain; it ended, one of them has started the next drain
\* and the other has still to continue
C1_Witness ==
    /\ resumed = 1
    /\ \E k \in Slots : drains[k].pc = "bdg" /\ rebuildPromise = k /\ Cardinality(drains[k].direct) = 2

\* no buildDependencyGraph is suspended at its await
Quiescent ==
    /\ \A k \in Slots : drains[k].pc # "bdg"
    /\ \A i \in 1..Len(operationQueue) : operationQueue[i].pc # "bdg"

Symmetric ==
    \A a \in Files : \A b \in Files :
        b \in Get(dependencyGraph, a) <=> a \in Get(reverseDependencyGraph, b)

C4_DeletedFile ==
    [][ \A k \in Slots : \A x \in drains[k].skipped :
           /\ x \notin drains[k].rebuilt
           /\ x \notin drains[k].entries
           /\ (drains[k].pc \in { "build", "retry" } /\ drains'[k].pc \notin { "build", "retry" })
                => \A e \in emitted' : e.ev = "update" => e.path # getOutputName(x) ]_vars

\* C5: a file whose removal handler has completed and that was not added again is
\* returned by no getFilesToRebuild started from another file
C5_NoPhantom ==
    \A x \in Files \ Range(allFiles) : \A y \in Files \ { x } :
        x \notin getFilesToRebuild(Mem, y)

\* C7: within a cycle the bundler is invoked at most twice; the second invocation
\* follows a first failure of the unresolved-entry class only and gets the entries
\* that still exist; a failure of the retry, and a first failure of another class,
\* fail the cycle; when no entry is left the cycle is skipped without an error and
\* the loop goes on with the queue
C7_RetryOnce ==
    [][ \A k \in Slots :
          LET d == drains[k]
              e == drains'[k]
              left == { f \in d.entries : f \in disk }
              failed == \E code \in BuildErrors : BuildFailed(code) \in emitted'
              unresolved == BuildFailed("UNRESOLVED_ENTRY") \in emitted'
          IN  /\ e.invocations <= 2
              /\ (e.pc = "retry" /\ d.pc # "retry")
                    => (d.pc = "build" /\ unresolved /\ e.entries = left /\ left # {}
                        /\ e.invocations = 2)
              /\ (d.pc = "retry" /\ failed) => (e.pc = "catch" /\ ErrorEvent \in emitted')
              /\ (d.pc = "build" /\ failed /\ ~unresolved)
                    => (e.pc = "catch" /\ ErrorEvent \in emitted')
              /\ (d.pc = "build" /\ unresolved /\ left = {})
                    => (e.pc \in { "bdg", "finally" } /\ ErrorEvent \notin emitted'
                        /\ (rebuildQueue = {} => e.pc = "finally")) ]_vars

\* a retry with fewer entries than the cycle set out to build
C7_Witness ==
    \E k \in Slots :
        /\ drains[k].pc = "retry"
        /\ drains[k].invocations = 2
        /\ drains[k].entries # drains[k].rebuilt

\* C8: the handler bodies run one at a time in arrival order: an operation is chained
\* at the end, only the first operation is ever inside its body, and operations leave
\* from the front
C8_ArrivalOrder ==
    [][ /\ \A i \in 2..Len(operationQueue') : operationQueue'[i].pc = "queued"
        /\ Len(operationQueue') > Len(operationQueue)
              => \E op \in { Operation(kind, path) :
                                kind \in { "add", "unlink", "addDir", "unlinkDir" },
                                path \in Files \cup Dirs } :
                    operationQueue' = Append(operationQueue, op)
        /\ Len(operationQueue') < Len(operationQueue)
              => operationQueue' = Tail(operationQueue)
        /\ Len(operationQueue') = Len(operationQueue)
              => \A i \in 2..Len(operationQueue) : operationQueue'[i] = operationQueue[i] ]_vars

\* a removal of a file waits behind the addition of the same file, whose body is
\* suspended in buildDependencyGraph
C8_Witness ==
    /\ Len(operationQueue) = 2
    /\ operationQueue[1].kind = "add" /\ operationQueue[1].pc = "bdg"
    /\ operationQueue[2].kind = "unlink" /\ operationQueue[2].pc = "queued"
    /\ operationQueue[2].path = operationQueue[1].path

-----------------------------------------------------------------------------
(* The specification of the classifier: determineUpdateStrategy applied to   *)
(* every set of at most MaxChanged paths, under every configuration of the  *)
(* roots and every strategy                                                 *)

\* the roots: apart, the test root inside the source root, the source root
\* inside the test root, and the two exchanged
ClsConfigs ==
    { [srcDir |-> << "s" >>, testDir |-> << "t" >>],
      [srcDir |-> << "s" >>, testDir |-> << "s", "/", "t" >>],
      [srcDir |-> << "s", "/", "t" >>, testDir |-> << "s" >>],
      [srcDir |-> << "t" >>, testDir |-> << "s" >>] }

ClsPaths ==
    { << "s", "/", "a", ".ts" >>,
      << "s", "/", "main", ".ts" >>,
      << "s", "\\", "config", "\\", "a", ".ts" >>,
      << "s", "/", "t", "/", "b", ".ts" >>,
      << "t", "/", "b", ".ts" >>,
      << "t", "/", "index", ".ts" >> }

InitClassify ==
    /\ config \in ClsConfigs
    /\ rebuildMode = "selective"
    /\ sourceChangeStrategy \in Strategies
    /\ criticalSourcePatterns = {}
    /\ disk = {}
    /\ outputs = {}
    /\ allFiles = << >>
    /\ dependencyGraph = << >>
    /\ reverseDependencyGraph = << >>
    /\ AtRest
    /\ budget = 0
    /\ clsFiles = {}
    /\ clsKind = "change"
    /\ clsResult = determineUpdateStrategy({}, "change")
    /\ trvFiles = {}
    /\ trvResult = NotTraversed
    /\ rsvImport = NoImport
    /\ rsvResult = NoPath

Classify ==
    /\ \E changedFiles \in { S \in SUBSET ClsPaths : Cardinality(S) <= MaxChanged } :
       \E changeType \in ChangeTypes :
          /\ clsFiles' = changedFiles
          /\ clsKind' = changeType
          /\ clsResult' = determineUpdateStrategy(changedFiles, changeType)
    /\ UNCHANGED << config, rebuildMode, sourceChangeStrategy, criticalSourcePatterns, disk, outputs,
                    allFiles,
                    rebuildQueue, directChanges, dependencyGraph, reverseDependencyGraph,
                    isRebuilding, rebuildPromise, drains, awaiting, resumed,
                    operationQueue, emitted, inCallback, budget, watcher, startup, trvFiles, trvResult, rsvImport, rsvResult >>

SpecClassify == InitClassify /\ [][Classify]_vars

\* C9: a non-empty changed set whose files all lie under the test root and of which
\* none lies under the source root (roles by path prefix) is classified as a
\* test-only update, for every event kind, strategy and configuration of the roots
C9_TestOnlyUpdate ==
    ( /\ clsFiles # {}
      /\ \A f \in clsFiles : startsWith(norm(f), config.testDir)
      /\ \A f \in clsFiles : ~startsWith(norm(f), config.srcDir) )
    => clsResult = [type |-> "test-update", reason |-> "Test files changed - incremental update"]

\* two test files removed under the always-reload strategy, the roots exchanged
C9_Witness ==
    /\ config = [srcDir |-> << "t" >>, testDir |-> << "s" >>]
    /\ sourceChangeStrategy = "always-reload"
    /\ clsKind = "unlinkDir"
    /\ clsFiles = { << "s", "/", "main", ".ts" >>, << "s", "\\", "config", "\\", "a", ".ts" >> }
    /\ clsResult.type = "test-update"

\* C10: under the smart strategy a modification with a source file in the changed set
\* is a full reload when some changed file is a critical source file, and an
\* incremental update otherwise
C10_SmartModification ==
    ( /\ sourceChangeStrategy = "smart"
      /\ clsKind = "change"
      /\ \E f \in clsFiles : startsWith(norm(f), config.srcDir) )
    => clsResult = IF \E f \in clsFiles : isCriticalSourceFile(f)
                   THEN [type |-> "full-reload", reason |-> "Critical source file changed"]
                   ELSE [type |-> "update", reason |-> "Source changed - incremental update"]

\* a critical source file (spelled with backslashes) changed together with a test file
C10_Witness ==
    /\ config = [srcDir |-> << "s" >>, testDir |-> << "t" >>]
    /\ sourceChangeStrategy = "smart"
    /\ clsKind = "change"
    /\ clsFiles = { << "s", "\\", "config", "\\", "a", ".ts" >>, << "t", "/", "b", ".ts" >> }
    /\ clsResult.type = "full-reload"

-----------------------------------------------------------------------------
(* The specification of the traversal: the rebuild set of a cycle, computed  *)
(* over every reverse graph on Files (cyclic ones included), every content   *)
(* of the disk and every set of changed files                                 *)

\* the forward map that mirrors a reverse map
Mirror(rev) == [f \in Files |-> { g \in Files : f \in rev[g] }]

InitGraph ==
    /\ config = [srcDir |-> << "s" >>, testDir |-> << "t" >>]
    /\ rebuildMode \in { "selective", "all" }
    /\ sourceChangeStrategy = "smart"
    /\ criticalSourcePatterns = {}
    /\ disk \in SUBSET Files
    /\ outputs = {}
    /\ allFiles = ScanOrder
    /\ reverseDependencyGraph \in [Files -> SUBSET Files]
    /\ dependencyGraph = Mirror(reverseDependencyGraph)
    /\ AtRest
    /\ budget = 0
    /\ clsFiles = {}
    /\ clsKind = "change"
    /\ clsResult = determineUpdateStrategy({}, "change")
    /\ trvFiles = {}
    /\ trvResult = NotTraversed
    /\ rsvImport = NoImport
    /\ rsvResult = NoPath

\* the snapshot of a cycle and its rebuild set (lines 1329-1364), with the while loop of
\* getFilesToRebuild run for each surviving changed file
Traverse ==
    /\ \E queued \in SUBSET Files \ { {} } :
         LET changedFiles == { f \in queued : existsSync(f) }
             runs == { traverse(Mem, f) : f \in changedFiles }
         IN  /\ trvFiles' = queued
             /\ trvResult' = [ ran |-> TRUE,
                               done |-> \A r \in runs : r.done,
                               files |-> rebuildSet(Mem, changedFiles),
                               each |-> UNION { r.files : r \in runs } ]
    /\ UNCHANGED << config, rebuildMode, sourceChangeStrategy, criticalSourcePatterns, disk, outputs,
                    allFiles,
                    rebuildQueue, directChanges, dependencyGraph, reverseDependencyGraph,
                    isRebuilding, rebuildPromise, drains, awaiting, resumed,
                    operationQueue, emitted, inCallback, budget, watcher, startup, clsFiles, clsKind,
                    clsResult, rsvImport, rsvResult >>

SpecGraph == InitGraph /\ [][Traverse]_vars

\* the files reached from S by following reverse edges zero or more times
Reachable(S) ==
    LET RECURSIVE grow(_)
        grow(R) == LET more == UNION { Get(reverseDependencyGraph, f) : f \in R }
                   IN  IF more \subseteq R THEN R ELSE grow(R \cup more)
    IN  grow(S)

\* the same, where an edge is followed only to a file that exists
ReachableExisting(S) ==
    LET RECURSIVE grow(_)
        grow(R) == LET more == { d \in UNION { Get(reverseDependencyGraph, f) : f \in R } : d \in disk }
                   IN  IF more \subseteq R THEN R ELSE grow(R \cup more)
    IN  grow(S)

\* the chain a.ts <- b.ts <- the test, all on disk, and a.ts modified
ChainModified ==
    /\ rebuildMode = "selective"
    /\ reverseDependencyGraph = [f \in Files |-> { g \in Files : f \in Imports(g) }]
    /\ disk = Files
    /\ trvFiles = { FileA }
    /\ trvResult.ran

-----------------------------------------------------------------------------
(* Properties of the events a cycle emits *)

\* a rebuildAll ends its bundler call in this step
BuildEnds(k) == drains[k].pc \in { "build", "retry" } /\ drains'[k].pc \notin { "build", "retry" }

\* the directly changed source files of a cycle
DirectSources(k) == { f \in drains[k].direct : isSourceFile(f) }

\* the test files among a set of files
TestsOf(S) == { t \in S : isTestFile(t) }

\* C12 as stated: the updates of a cycle carry the existing test files that transitively
\* depend on the cycle's directly changed source files (along reverse edges to existing
\* files), and none when no direct change is a source file
C12_AffectedTests ==
    [][ \A k \in Slots : BuildEnds(k) =>
           \A e \in emitted' : e.ev = "update" =>
               e.tests = TestsOf(ReachableExisting(DirectSources(k)) \cap disk) ]_vars

\* C12: in selective mode the updates of a cycle carry the existing test files reachable
\* from the cycle's directly changed source files along reverse edges to existing files;
\* in mode all they carry every tracked test file that exists, if a direct change is a
\* source file; they carry none when no direct change is a source file
C12_AffectedTestsByMode ==
    [][ \A k \in Slots : BuildEnds(k) =>
           \A e \in emitted' : e.ev = "update" =>
               e.tests = IF DirectSources(k) = {} THEN {}
                         ELSE IF rebuildMode = "selective"
                         THEN TestsOf(ReachableExisting(DirectSources(k)) \cap disk)
                         ELSE TestsOf(Range(allFiles) \cap disk) ]_vars

\* a.ts alone was modified in the chain a.ts <- b.ts <- test: the update for the
\* artifact of a.ts carries the test
C12_Witness ==
    /\ rebuildMode = "selective"
    /\ RebuildEvent("source-change", { FileA }) \in emitted
    /\ \E e \in emitted : e.ev = "update" /\ e.file = FileA /\ e.path = getOutputName(FileA)
                          /\ e.tests = { FileT }

\* the update events of the step
Updates == { e \in emitted' : e.ev = "update" }

\* the rebuilt files of a cycle whose artifact is present when the updates are emitted
Built(k) == { f \in drains[k].rebuilt : getOutputName(f) \in outputs' }

\* a cycle ends its bundler call with artifacts and emits its events
CycleCompletes(k) == BuildEnds(k) /\ \E e \in emitted' : e.ev = "rebuild"

\* C13: a cycle classified full-reload emits exactly one update event; a cycle classified
\* incremental or test-only emits exactly one update event per rebuilt file whose
\* artifact is present
C13_UpdatesPerCycle ==
    [][ \A k \in Slots : CycleCompletes(k) =>
           IF determineUpdateStrategy(drains[k].direct, "change").type = "full-reload"
           THEN Cardinality(Updates) = 1
           ELSE /\ { e.file : e \in Updates } = Built(k)
                /\ Cardinality(Updates) = Cardinality(Built(k)) ]_vars

\* what the emission loop does for every classification: one update event per rebuilt
\* file whose artifact is present, each of the cycle's type
UpdatesPerArtifact ==
    [][ \A k \in Slots : CycleCompletes(k) =>
           /\ { e.file : e \in Updates } = Built(k)
           /\ Cardinality(Updates) = Cardinality(Built(k))
           /\ \A e \in Updates :
                 e.type = determineUpdateStrategy(drains[k].direct, "change").type ]_vars

-----------------------------------------------------------------------------
\* What the listeners learn of an error

\* an invocation of the bundler throws in the step
BundlerThrows == \E code \in BuildErrors : BuildFailed(code) \in emitted'

\* the body of a handler throws in the step and the .catch of its operation logs it
HandlerThrows == Console("Error in handleFileRemove") \in emitted'

\* C14: whenever an invocation of the bundler throws or the body of a handler throws, an
\* error event is emitted to the listeners
C14_ErrorReported ==
    [][ (BundlerThrows \/ HandlerThrows) => ErrorEvent \in emitted' ]_vars

\* the part that holds: a failure of the bundler that is not retried is emitted
BundlerErrorReported ==
    [][ (BundlerThrows /\ Console("retrying build") \notin emitted'
            /\ Console("skipping build") \notin emitted') => ErrorEvent \in emitted' ]_vars

\* an operation has just thrown and others wait behind it
ThrownWithOthersQueued ==
    Console("Error in handleFileRemove") \in emitted /\ operationQueue # << >>

-----------------------------------------------------------------------------
(* Shutdown: the handlers of SIGINT and SIGTERM and of the closing of the     *)
(* browser await cleanup() and end the process                               *)

\* what stop() and the end of the process leave alone
StopLeaves ==
    UNCHANGED << config, rebuildMode, sourceChangeStrategy, criticalSourcePatterns, disk, outputs,
                 allFiles, rebuildQueue, directChanges, isRebuilding, rebuildPromise, drains,
                 awaiting, resumed, operationQueue, budget, startup, clsFiles, clsKind,
                 clsResult, trvFiles, trvResult, rsvImport, rsvResult >>

\* stop() is called from the callback of the signal and calls watcher.close(): the
\* watcher emits no event from here on
Stop ==
    /\ watcher = "open"
    /\ ~continuationPending
    /\ watcher' = "closing"
    /\ emitted' = {}
    /\ inCallback' = FALSE
    /\ UNCHANGED << dependencyGraph, reverseDependencyGraph >>
    /\ StopLeaves

\* the await of watcher.close() returns: the watcher is forgotten and both graphs are
\* cleared
StopClosed ==
    /\ watcher = "closing"
    /\ ~continuationPending
    /\ watcher' = "closed"
    /\ dependencyGraph' = << >>
    /\ reverseDependencyGraph' = << >>
    /\ emitted' = { Console("HMR watcher stopped") }
    /\ inCallback' = FALSE
    /\ StopLeaves

\* cleanup() has returned to the handler of the signal, which calls process.exit(0)
Exit ==
    /\ watcher = "closed"
    /\ ~continuationPending
    /\ watcher' = "exited"
    /\ emitted' = {}
    /\ inCallback' = FALSE
    /\ UNCHANGED << dependencyGraph, reverseDependencyGraph >>
    /\ StopLeaves

NextStop ==
    \/ Next
    \/ Stop
    \/ StopClosed
    \/ Exit

\* the steps the event loop owes: those of Program, the continuation of stop() and the
\* end of the process
ProgramStop ==
    \/ Program
    \/ StopClosed
    \/ Exit

ProgramStopReady ==
    \/ ProgramReady
    \/ watcher \in { "closing", "closed" } /\ ~continuationPending

SpecStop ==
    /\ InitFair
    /\ [][NextStop]_vars
    /\ ([]<>(~ProgramStopReady) \/ []<><<ProgramStop>>_vars)

\* the lock is free and no rebuildAll is pending
Released ==
    /\ ~isRebuilding
    /\ rebuildPromise = 0
    /\ \A k \in Slots : drains[k].pc = "idle"

\* the watcher is closed once stop() has been called
StopCloses == (watcher = "closing") ~> (watcher \in { "closed", "exited" })

\* in a process that lives on, the rebuildAll in flight at the shutdown returns or throws
\* and the lock is released
StopReleasesUnlessExited == (watcher = "closing" /\ InFlight # {}) ~> (Released \/ watcher = "exited")

\* the graphs that the work in flight builds after stop() has cleared them agree
StopKeepsGraph == (watcher \in { "closed", "exited" } /\ Quiescent) => Symmetric

\* C16: once shutdown is requested with a rebuildAll in flight, the rebuildAll returns or
\* throws and the lock is released before the process ends, and the two graphs agree in
\* every state after the watcher is closed
C16_Shutdown ==
    /\ watcher = "exited" => Released
    /\ (watcher \in { "closed", "exited" } /\ Quiescent) => Symmetric

-----------------------------------------------------------------------------
\* Queuing a file that is queued already

\* a cycle takes its snapshot of the queue in the step
Snapshot(k) == drains[k].pc # "bdg" /\ drains'[k].pc = "bdg"

\* C17: the queue holds one entry for a file however often and in whatever spelling it
\* was queued; the snapshot of a cycle takes the entry out of the queue, the file is once
\* among the cycle's changed files and once in its rebuild set, and the cycle emits at
\* most one update event for it
C17_Idempotent ==
    [][ /\ rebuildQueue' \subseteq Files
        /\ \A k \in Slots : Snapshot(k) =>
              /\ drains'[k].changed \subseteq Files
              /\ drains'[k].changed \cap rebuildQueue' = {}
              /\ drains'[k].changed \subseteq drains'[k].rebuilt
        /\ \A k \in Slots : CycleCompletes(k) =>
              \A f \in drains[k].changed : Cardinality({ e \in Updates : e.file = f }) <= 1 ]_vars

\* the same, with the rebuild set as getFilesToRebuild computes it: in mode 'all' it is
\* the tracked files that exist, and holds a changed file only if the file is tracked
C17_IdempotentTracked ==
    [][ /\ rebuildQueue' \subseteq Files
        /\ \A k \in Slots : Snapshot(k) =>
              /\ drains'[k].changed \subseteq Files
              /\ drains'[k].changed \cap rebuildQueue' = {}
              /\ { f \in drains'[k].changed : rebuildMode = "selective" \/ f \in Range(allFiles') }
                    \subseteq drains'[k].rebuilt
        /\ \A k \in Slots : CycleCompletes(k) =>
              \A f \in drains[k].changed : Cardinality({ e \in Updates : e.file = f }) <= 1 ]_vars

-----------------------------------------------------------------------------
\* The update of one file's edges and the other actors on the graph

\* a rebuildAll is suspended at line 939: the old reverse edges of its current file are
\* removed and the new edges are not recorded
DrainMidUpdate(k) == drains[k].pc = "bdg"

\* the same for the body of a handler
OperationMidUpdate(i) == operationQueue[i].pc = "bdg"

\* no body of a handler starts, continues or ends in the step
NoOperationStep ==
    /\ Len(operationQueue') >= Len(operationQueue)
    /\ \A i \in 1..Len(operationQueue) : operationQueue'[i] = operationQueue[i]

\* no rebuildAll other than that of slot k moves in the step
NoDrainStepBut(k) == \A j \in Slots \ { k } : drains'[j] = drains[j]

\* C18: while the update of one file's edges is under way, no other actor on the graph
\* takes a step: no body of a handler and no other rebuildAll while a rebuildAll is
\* between the removal and the recording, and no rebuildAll while a handler is
C18_AtomicUpdate ==
    [][ /\ \A k \in Slots : DrainMidUpdate(k) => (NoOperationStep /\ NoDrainStepBut(k))
        /\ \A i \in 1..Len(operationQueue) : OperationMidUpdate(i) => drains' = drains ]_vars

-----------------------------------------------------------------------------
\* The entry points at the start of an invocation

\* the first invocation of the bundler of a cycle starts in the step (line 1401)
InvocationStarts(k) == drains[k].pc = "getVite" /\ drains'[k].pc = "build"

\* C19: every entry point given to the first invocation of the bundler of a cycle exists
\* on disk when the invocation starts
C19_EntriesExist ==
    [][ \A k \in Slots : InvocationStarts(k) => drains'[k].entries \subseteq disk' ]_vars

\* what the filters of lines 1374-1375 give: the entry points exist when the cycle takes
\* its snapshot, before the awaits of lines 1388 and 1397
EntriesExistAtSnapshot ==
    [][ \A k \in Slots : Snapshot(k) => drains'[k].entries \subseteq disk' ]_vars

-----------------------------------------------------------------------------
\* The direct changes of a cycle

\* the body of a removal handler runs in the step
RemovalRuns ==
    /\ operationQueue # << >>
    /\ operationQueue[1].kind \in { "unlink", "unlinkDir" }
    /\ operationQueue[1].pc = "queued"
    /\ operationQueue' = Tail(operationQueue)

\* the direct changes the engine holds: those queued and those of the cycles under way
DirectHeld == directChanges \cup UNION { drains[k].direct : k \in Slots }

\* C20: the body of a removal handler, which queues the dependents of the removed file,
\* adds no direct change, and a cycle whose snapshot it takes is a full reload only if
\* the files that were direct changes before make it one
C20_DirectOnly ==
    [][ RemovalRuns =>
          /\ DirectHeld' \subseteq DirectHeld
          /\ \A k \in Slots :
                (Snapshot(k)
                   /\ determineUpdateStrategy(drains'[k].direct, "change").type = "full-reload")
                => determineUpdateStrategy(drains'[k].direct \cap DirectHeld, "change").type
                      = "full-reload" ]_vars

-----------------------------------------------------------------------------
\* The dependents of removed files

\* the tracked files the removal at the head of the chain removes
RemovedFiles ==
    IF operationQueue[1].kind = "unlink"
    THEN { norm(operationQueue[1].path) }
    ELSE Range(trackedUnder(Mem, norm(operationQueue[1].path)))

\* their dependents that exist and are not removed with them
RemovalAffected ==
    { d \in UNION { Get(reverseDependencyGraph, f) : f \in RemovedFiles } : existsSync(d) }
        \ RemovedFiles

\* the classification of the removal (lines 1166 and 1274)
RemovalType == determineUpdateStrategy(RemovedFiles, operationQueue[1].kind).type

\* the step queues d: d waits in the queue or is in the snapshot of a cycle the step starts
Requeued(d) ==
    \/ d \in rebuildQueue'
    \/ \E k \in Slots : Snapshot(k) /\ d \in drains'[k].changed

\* the step does not queue d
NotRequeued(d) ==
    /\ d \in rebuildQueue' => d \in rebuildQueue
    /\ \A k \in Slots : ~Snapshot(k)

\* C21: the body of a removal handler queues the dependents of the removed files that
\* exist when the removal is classified update or test-update, in either rebuild mode,
\* and queues none of them when it is classified full-reload
C21_RequeueUnlessFullReload ==
    [][ (RemovalRuns /\ ~HandlerThrows) =>
           \A d \in RemovalAffected :
              IF RemovalType = "full-reload" THEN NotRequeued(d) ELSE Requeued(d) ]_vars

\* what lines 1182 and 1283 test: the dependents are queued in mode 'selective' and are
\* not in mode 'all', whatever the classification
RequeueBySelective ==
    [][ (RemovalRuns /\ ~HandlerThrows) =>
           \A d \in RemovalAffected :
              IF rebuildMode = "selective" THEN Requeued(d) ELSE NotRequeued(d) ]_vars

-----------------------------------------------------------------------------
\* The cycle that rebuilds an added file

\* two watcher events have come, the removal of the tracked file f and its addition:
\* handleFileAdd has pushed f at the end of the tracked files
AddedAgain(f) ==
    /\ budget = MaxFairEvents - 2
    /\ allFiles = Append(SelectSeq(ScanOrder, LAMBDA g : g # f), f)

\* C22: the update events of the cycle whose one direct change is a source file that the
\* add handler queued are of type update, for every strategy and whether or not the file
\* matches a critical pattern
C22_AddedIsIncremental ==
    [][ \A k \in Slots : \A f \in { FileA, FileB } :
           (CycleCompletes(k) /\ AddedAgain(f) /\ drains[k].direct = { f })
              => \A e \in Updates : e.type = "update" ]_vars

\* the type the emission loop gives them (line 1437): that of a modification of the
\* direct changes
AddedIsClassifiedAsChange ==
    [][ \A k \in Slots : \A f \in { FileA, FileB } :
           (CycleCompletes(k) /\ AddedAgain(f) /\ drains[k].direct = { f })
              => \A e \in Updates : e.type = determineUpdateStrategy({ f }, "change").type ]_vars

-----------------------------------------------------------------------------
(* Start-up: start() registers the handlers of the watcher's events and the  *)
(* handler of its ready event, which scans the tree and builds the graph     *)

\* this.emit('hmr:ready') (line 1097): the event has no argument
ReadyEvent == [ev |-> "ready", type |-> "", path |-> NoPath, file |-> NoPath, tests |-> {}]

\* glob.sync(path.join(dir, '**/*{extensions}')) (lines 1102-1107): the files below dir
\* with a tracked extension, each once
glob(dir) ==
    InOrder({ f \in disk : startsWith(f, dir \o << SEP >>) /\ extname(f) \in { ".ts", ".js", ".mjs" } },
            ScanOrder)

\* scanAllFiles (lines 1101-1110): the files under the source root followed by those
\* under the test root, that pass the filter; the two lists are concatenated as they are
scanAllFiles ==
    LET found == SelectSeq(glob(config.srcDir) \o glob(config.testDir), matchesFilter)
    IN  [i \in 1..Len(found) |-> norm(found[i])]

\* what the handler of the ready event leaves alone
StartupLeaves ==
    /\ inCallback' = FALSE
    /\ UNCHANGED << config, rebuildMode, sourceChangeStrategy, criticalSourcePatterns, disk,
                    operationQueue, budget, watcher, clsFiles, clsKind, clsResult, trvFiles,
                    trvResult, rsvImport, rsvResult >>

\* the watcher emits ready: the handler scans the tree and enters
\* buildDependencyGraph(this.allFiles), where it suspends at the first await
WatcherReady ==
    /\ startup.pc = "scan"
    /\ watcher = "open"
    /\ ~continuationPending
    /\ LET files == scanAllFiles
           m == [Mem EXCEPT !.allFiles = files]
       IN  IF files = << >>
           THEN /\ Store(m)
                /\ startup' = [StartupDone EXCEPT !.pc = "bdg"]
           ELSE /\ Store(bdgBefore(m, Head(files)))
                /\ startup' = [pc |-> "bdg", cur |-> Head(files),
                               deps |-> extractDependencies(Head(files)), rest |-> Tail(files)]
    /\ StartupLeaves

\* the await inside buildDependencyGraph returns to the handler of the ready event;
\* after the last file the handler logs the number of files and emits hmr:ready
StartupGraphStep ==
    /\ startup.pc = "bdg"
    /\ LET m == IF startup.cur = NoPath THEN Mem ELSE bdgAfter(Mem, startup.cur, startup.deps)
       IN  IF startup.rest = << >>
           THEN /\ Store([m EXCEPT !.log = { Console("HMR watching"), ReadyEvent }])
                /\ startup' = StartupDone
           ELSE /\ Store(bdgBefore(m, Head(startup.rest)))
                /\ startup' = [startup EXCEPT !.cur = Head(startup.rest),
                                              !.deps = extractDependencies(Head(startup.rest)),
                                              !.rest = Tail(startup.rest)]
    /\ StartupLeaves

\* the state when start() returns: the handlers are registered, nothing is tracked
Started ==
    /\ rebuildMode \in { "selective", "all" }
    /\ sourceChangeStrategy = "smart"
    /\ criticalSourcePatterns = {}
    /\ disk = Files
    /\ outputs = { getOutputName(f) : f \in Files }
    /\ allFiles = << >>
    /\ dependencyGraph = << >>
    /\ reverseDependencyGraph = << >>
    /\ rebuildQueue = {}
    /\ directChanges = {}
    /\ isRebuilding = FALSE
    /\ rebuildPromise = 0
    /\ drains = [k \in Slots |-> IdleDrain]
    /\ awaiting = [k \in Slots |-> 0]
    /\ resumed = 0
    /\ operationQueue = << >>
    /\ emitted = {}
    /\ inCallback = FALSE
    /\ watcher = "open"
    /\ startup = [StartupDone EXCEPT !.pc = "scan"]
    /\ budget = MaxFairEvents
    /\ clsFiles = {}
    /\ clsKind = "change"
    /\ clsResult = determineUpdateStrategy({}, "change")
    /\ trvFiles = {}
    /\ trvResult = NotTraversed
    /\ rsvImport = NoImport
    /\ rsvResult = NoPath

InitStart == config = [srcDir |-> << "s" >>, testDir |-> << "t" >>] /\ Started

\* the watcher emits the events of changes it sees during its initial scan as well as
\* after it: the handlers are registered before the scan and nothing holds them back
NextStart ==
    \/ Next
    \/ WatcherReady
    \/ StartupGraphStep

SpecStart == InitStart /\ [][NextStart]_vars

\* the ready event with the number of tracked files
ReadyWithCount(n) ==
    [ev |-> "ready", type |-> "", path |-> NoPath, file |-> NoPath, tests |-> {}, count |-> n]

\* the ready event is emitted in the step
ReadyEmitted == \E e \in emitted' : e.ev = "ready"

\* the step is not one of the handler of the ready event
NotOfStartup == startup' = startup

\* C23: before the ready event is emitted no handler changes the tracked files, the
\* graphs or the queue and no cycle starts; the ready event is emitted when the scan and
\* the graph are complete, and carries the number of tracked files
C23_ReadyFirst ==
    [][ /\ (startup.pc # "done" /\ NotOfStartup) =>
              UNCHANGED << allFiles, dependencyGraph, reverseDependencyGraph, rebuildQueue,
                           drains, operationQueue >>
        /\ ReadyEmitted =>
              /\ startup.pc = "bdg" /\ startup'.pc = "done"
              /\ ReadyWithCount(Len(allFiles')) \in emitted' ]_vars

\* the ready event is emitted once, by the last step of the handler, after the scan
ReadyAfterScan ==
    [][ ReadyEmitted =>
           /\ startup.pc = "bdg" /\ startup'.pc = "done"
           /\ ReadyEvent \in emitted'
           /\ \A f \in Range(allFiles') : existsSync(f) => f \in DOMAIN dependencyGraph' ]_vars

\* from the ready event of the watcher to hmr:ready the handler runs alone: its awaits
\* are of promises that are settled already
StartupAlone ==
    [][ (startup.pc = "bdg" /\ NotOfStartup) =>
           UNCHANGED << allFiles, dependencyGraph, reverseDependencyGraph, rebuildQueue,
                        drains, operationQueue >> ]_vars

-----------------------------------------------------------------------------
(* Re-scanning the dependencies of files: buildDependencyGraph applied to    *)
(* every set of files, over every graph and every content of the disk        *)

\* buildDependencyGraph(files) run to its end (lines 924-949) with no other actor between
\* its awaits
buildDependencyGraph(m, files) ==
    LET existingFiles == SelectSeq(files, existsSync)
        RECURSIVE loop(_, _)
        loop(mm, fs) ==
            IF fs = << >> THEN mm
            ELSE loop(bdgAfter(bdgBefore(mm, Head(fs)), Head(fs), extractDependencies(Head(fs))),
                      Tail(fs))
    IN  loop(m, existingFiles)

Rescan ==
    /\ \E files \in SUBSET Files \ { {} } :
         LET m == buildDependencyGraph(Mem, InOrder(files, ScanOrder))
         IN  /\ trvFiles' = files
             /\ dependencyGraph' = m.dependencyGraph
             /\ reverseDependencyGraph' = m.reverseDependencyGraph
    /\ UNCHANGED << config, rebuildMode, sourceChangeStrategy, criticalSourcePatterns, disk, outputs,
                    allFiles, rebuildQueue, directChanges, isRebuilding, rebuildPromise, drains,
                    awaiting, resumed, operationQueue, emitted, inCallback, budget, watcher,
                    startup, clsFiles, clsKind, clsResult, trvResult, rsvImport, rsvResult >>

SpecRescan == InitGraph /\ [][Rescan]_vars

\* f is recorded as a dependent of some file
InReverseSet(f) == \E d \in DOMAIN reverseDependencyGraph : f \in reverseDependencyGraph[d]

\* C24: after the dependencies of a file that is not on disk were re-scanned, the file
\* has no forward entry and is in no reverse set
C24_MissingFileDropped ==
    \A f \in trvFiles \ disk : f \notin DOMAIN dependencyGraph /\ ~InReverseSet(f)

\* what the filter of line 926 does: the re-scan leaves the entries of a file that is not
\* on disk as they were
MissingFileSkipped ==
    [][ \A f \in trvFiles' \ disk :
           /\ (f \in DOMAIN dependencyGraph') = (f \in DOMAIN dependencyGraph)
           /\ Get(dependencyGraph', f) = Get(dependencyGraph, f) ]_vars

-----------------------------------------------------------------------------
(* The tracked files under other configurations of the roots *)

\* the roots apart, and one directory configured as both roots
RootConfigs ==
    { [srcDir |-> << "s" >>, testDir |-> << "t" >>],
      [srcDir |-> << "s" >>, testDir |-> << "s" >>] }

InitRoots == config \in RootConfigs /\ Started

SpecRoots == InitRoots /\ [][NextStart]_vars

NoDuplicates == \A i, j \in 1..Len(allFiles) : allFiles[i] = allFiles[j] => i = j

\* C25: the tracked files never hold the same path twice, after the initial scan and
\* after any sequence of add, addDir, unlink and unlinkDir events, also when the source
\* root and the test root are the same directory
C25_NoDuplicates == NoDuplicates

\* with the roots apart they never do
NoDuplicatesApart ==
    config = [srcDir |-> << "s" >>, testDir |-> << "t" >>] => NoDuplicates

\* no handler of a watcher event adds a path that is tracked: a duplicate comes from the
\* scan alone
DuplicatesFromScan ==
    [][ (NoDuplicates /\ ~NoDuplicates') => (startup.pc = "scan" /\ startup'.pc # "scan") ]_vars

-----------------------------------------------------------------------------
(* The classifier against its decision table *)

\* the type of the first row that matches, the rows in the order of the returns of
\* determineUpdateStrategy; strategyRow says when the rows of the configured strategy
\* apply to a modification
FirstRow(changedFiles, changeType, strategyRow) ==
    LET source == \E f \in changedFiles : isSourceFile(f)
        test == \E f \in changedFiles : isTestFile(f)
        critical == \E f \in changedFiles : isSourceFile(f) /\ matchesCriticalPattern(norm(f))
    IN  IF test /\ ~source THEN "test-update"
        ELSE IF changeType \in { "unlink", "unlinkDir" } /\ critical THEN "full-reload"
        ELSE IF changeType \in { "unlink", "unlinkDir" } THEN "update"
        ELSE IF changeType \in { "add", "addDir" } THEN "update"
        ELSE IF strategyRow /\ sourceChangeStrategy = "always-reload" THEN "full-reload"
        ELSE IF strategyRow /\ sourceChangeStrategy = "never-reload" THEN "update"
        ELSE IF strategyRow /\ sourceChangeStrategy = "smart" /\ critical THEN "full-reload"
        ELSE IF strategyRow /\ sourceChangeStrategy = "smart" THEN "update"
        ELSE "update"

\* the one reason the code gives with each exit
Reasons ==
    { "Test files changed - incremental update", "Critical source file/directory removed",
      "Source file/directory removed - updating dependents",
      "Source file/directory added - building new modules",
      "Source changed - always-reload strategy", "Source changed - never-reload strategy",
      "Critical source file changed", "Source changed - incremental update", "General update" }

\* C26 as stated: the type is that of the first matching row, the rows of the configured
\* strategy applying to every modification
C26_FirstMatchingRow ==
    clsResult.type = FirstRow(clsFiles, clsKind, clsKind = "change")

\* C26: the type is that of the first matching row, the rows of the configured strategy
\* applying to a modification with a source file in the changed set; the type and the
\* reason are a function of the changed set, the event kind and the configuration
C26_DecisionTable ==
    /\ clsResult.type = FirstRow(clsFiles, clsKind,
                                 clsKind = "change" /\ \E f \in clsFiles : isSourceFile(f))
    /\ clsResult.reason \in Reasons
    /\ clsResult = determineUpdateStrategy(clsFiles, clsKind)

\* a file under neither root modified under the always-reload strategy: the default row
C26_Witness ==
    /\ config = [srcDir |-> << "s", "/", "t" >>, testDir |-> << "s" >>]
    /\ sourceChangeStrategy = "always-reload"
    /\ clsKind = "change"
    /\ clsFiles = { << "t", "/", "b", ".ts" >> }
    /\ clsResult = [type |-> "update", reason |-> "General update"]

-----------------------------------------------------------------------------
(* The resolution of an import specifier to a file (resolveImport), over     *)
(* every content of the importing file's directory                           *)

\* [...this.fileFilter.extensions, ''] (line 990)
extensions == << ".ts", ".js", ".mjs", "" >>

\* fs.existsSync(p) && fs.statSync(p).isFile(): disk holds the regular files
isFile(p) == p \in disk

\* p + ext
withExtension(p, ext) == IF ext = "" THEN p ELSE Append(p, ext)

\* path.dirname
dirname(p) == SubSeq(p, 1, LastSep(p) - 1)

\* path.resolve(dir, importPath) for a specifier that begins with ./ or with /
pathResolve(dir, importPath) ==
    IF importPath[1] = SEP THEN importPath
    ELSE dir \o << SEP >> \o SubSeq(importPath, 3, Len(importPath))

\* resolvePathAlias (lines 1005-1021) with no alias configured: null
resolvePathAlias(importPath) == NoPath

\* resolveImport (lines 978-1003); NoPath stands for null
resolveImport(fromFile, importPath) ==
    LET resolved == pathResolve(dirname(fromFile), importPath)
        RECURSIVE loop(_)
        loop(exts) ==
            IF exts = << >> THEN NoPath
            ELSE LET withExt == withExtension(resolved, Head(exts))
                     indexFile == resolved \o << SEP >> \o withExtension(<< "index" >>, Head(exts))
                 IN  IF isFile(withExt) THEN withExt
                     ELSE IF isFile(indexFile) THEN indexFile
                     ELSE loop(Tail(exts))
    IN  IF ~existsSync(fromFile) THEN NoPath
        ELSE IF importPath[1] # "." /\ importPath[1] # SEP THEN resolvePathAlias(importPath)
        ELSE IF isFile(resolved) THEN resolved
        ELSE loop(extensions)

\* the specifiers of the imports: ./x, ./x.js and the package pkg
ImportPaths == { << ".", "/", "x" >>, << ".", "/", "x", ".js" >>, << "pkg" >> }

\* the paths that the resolution of ./x from s/a.ts may probe
Probed ==
    { << "s", "/", "x" >>, << "s", "/", "x", ".ts" >>, << "s", "/", "x", ".js" >>,
      << "s", "/", "x", ".mjs" >>, << "s", "/", "x", "/", "index", ".ts" >>,
      << "s", "/", "x", "/", "index", ".js" >>, << "s", "/", "x", "/", "index", ".mjs" >>,
      << "s", "/", "x", "/", "index" >> }

\* a path is a regular file or a directory, never both
FileSystems ==
    { d \in SUBSET (Probed \cup { FileA }) :
        \A p \in d : \A q \in d : ~startsWith(q, p \o << SEP >>) }

InitResolve ==
    /\ config = [srcDir |-> << "s" >>, testDir |-> << "t" >>]
    /\ rebuildMode = "selective"
    /\ sourceChangeStrategy = "smart"
    /\ criticalSourcePatterns = {}
    /\ disk \in FileSystems
    /\ outputs = {}
    /\ allFiles = << >>
    /\ reverseDependencyGraph = << >>
    /\ dependencyGraph = << >>
    /\ AtRest
    /\ budget = 0
    /\ clsFiles = {}
    /\ clsKind = "change"
    /\ clsResult = determineUpdateStrategy({}, "change")
    /\ trvFiles = {}
    /\ trvResult = NotTraversed
    /\ rsvImport = NoImport
    /\ rsvResult = NoPath

Resolve ==
    /\ \E importPath \in ImportPaths :
          /\ rsvImport' = [from |-> FileA, importPath |-> importPath]
          /\ rsvResult' = resolveImport(FileA, importPath)
    /\ UNCHANGED << config, rebuildMode, sourceChangeStrategy, criticalSourcePatterns, disk, outputs,
                    allFiles, rebuildQueue, directChanges, dependencyGraph, reverseDependencyGraph,
                    isRebuilding, rebuildPromise, drains, awaiting, resumed, operationQueue,
                    emitted, inCallback, budget, watcher, startup, clsFiles, clsKind, clsResult,
                    trvFiles, trvResult >>

SpecResolve == InitResolve /\ [][Resolve]_vars

\* the first member of the sequence of paths that is a regular file, NoPath when none is
FirstFile(paths) ==
    LET found == SelectSeq(paths, isFile)
    IN  IF found = << >> THEN NoPath ELSE Head(found)

\* a relative import of an importing file that exists has been resolved
Resolved ==
    /\ rsvImport # NoImport
    /\ rsvImport.importPath[1] = "."
    /\ existsSync(rsvImport.from)

\* the path the specifier names
Target == pathResolve(dirname(rsvImport.from), rsvImport.importPath)

\* C27: a relative import resolves to the first regular file among the literal path,
\* the path with each tracked extension, and only then the index file with each
\* extension (and with none) in the directory of that name; to nothing when none of
\* them is one
C27_ExtensionsBeforeIndex ==
    Resolved =>
        rsvResult = FirstFile(<< Target,
                                 Target \o << ".ts" >>, Target \o << ".js" >>, Target \o << ".mjs" >>,
                                 Target \o << SEP, "index", ".ts" >>,
                                 Target \o << SEP, "index", ".js" >>,
                                 Target \o << SEP, "index", ".mjs" >>,
                                 Target \o << SEP, "index" >> >>)

\* the literal path is the first candidate, and what is returned is a regular file
LiteralFirst ==
    Resolved => /\ isFile(Target) => rsvResult = Target
                /\ rsvResult # NoPath => isFile(rsvResult)

\* the order of the loop (lines 994-1000): for each extension in turn the path with
\* the extension and then the index file with it, the empty extension last
ExtensionByExtension ==
    Resolved =>
        rsvResult = FirstFile(<< Target,
                                 Target \o << ".ts" >>, Target \o << SEP, "index", ".ts" >>,
                                 Target \o << ".js" >>, Target \o << SEP, "index", ".js" >>,
                                 Target \o << ".mjs" >>, Target \o << SEP, "index", ".mjs" >>,
                                 Target \o << SEP, "index" >> >>)

-----------------------------------------------------------------------------
(* The snapshot of a cycle and the changes queued after it *)

\* the positions of a rebuildAll between the snapshot of a cycle and its end
InCycle == { "bdg", "getVite", "build", "retry" }

\* a step within one cycle of the rebuildAll of slot k
SameCycle(k) == drains[k].pc \in InCycle /\ drains'[k].pc \in InCycle /\ ~Snapshot(k)

\* C28: the step that takes the snapshot of a cycle leaves in the queue and in the direct
\* changes nothing that was there before it and nothing of the snapshot, and every
\* existing file that was queued before it is among the cycle's changed files; until the cycle ends its changed files, direct changes and rebuild set
\* stay as the snapshot made them, whatever is queued meanwhile; the rebuild event carries
\* the direct changes of the snapshot and the update events are of files of the rebuild
\* set; a file queued during the cycle stays queued until a later snapshot unless a
\* removal handler takes it out
C28_SnapshotIsolation ==
    [][ \A k \in Slots :
          /\ Snapshot(k) =>
                /\ rebuildQueue' \cap drains'[k].changed = {}
                /\ directChanges' \cap drains'[k].direct = {}
                /\ rebuildQueue' \cap rebuildQueue = {} /\ directChanges' \cap directChanges = {}
                /\ { f \in rebuildQueue : f \in disk' } \subseteq drains'[k].changed
                /\ { f \in directChanges : f \in disk' } \subseteq drains'[k].direct
          /\ SameCycle(k) =>
                /\ drains'[k].changed = drains[k].changed
                /\ drains'[k].direct = drains[k].direct
                /\ drains'[k].rebuilt = drains[k].rebuilt
                /\ RemovalRuns \/ rebuildQueue \subseteq rebuildQueue'
          /\ CycleCompletes(k) =>
                /\ \A e \in emitted' : e.ev = "rebuild" => e.tests = drains[k].direct
                /\ \A e \in Updates : e.file \in drains[k].rebuilt ]_vars

\* the cycle of a.ts has completed with its rebuild event while b.ts, queued during it,
\* is the changed file of the cycle that follows
C28_Witness ==
    \E k \in Slots :
        /\ drains[k].pc = "bdg"
        /\ drains[k].changed = { FileB }
        /\ FileA \notin drains[k].rebuilt
        /\ \E e \in emitted : e.ev = "rebuild" /\ e.tests = { FileA }

-----------------------------------------------------------------------------
(* The error events of a failed cycle *)

\* the rebuildAll of slot k throws in the step: its catch (lines 1471-1475) has emitted
\* the error and thrown it again
CycleFails(k) == drains[k].pc \in { "build", "retry" } /\ drains'[k].pc = "catch"

\* the .catch of queueRebuild (lines 1312-1315) runs for the rebuildAll of slot k
CatchRuns(k) == drains[k].pc = "catch" /\ drains'[k].pc = "finally"

\* C29: a cycle that fails emits one error event: the step in which rebuildAll throws
\* emits it, and no step that follows emits another for the same failure
C29_OneErrorEvent ==
    [][ \A k \in Slots :
          /\ CycleFails(k) => ErrorEvent \in emitted'
          /\ CatchRuns(k) => ErrorEvent \notin emitted' ]_vars

\* the failure is emitted twice, by the catch of rebuildAll and by the .catch of
\* queueRebuild, and by nothing else
TwoErrorEvents ==
    [][ /\ \A k \in Slots : (CycleFails(k) \/ CatchRuns(k)) => ErrorEvent \in emitted'
        /\ ErrorEvent \in emitted' => \E k \in Slots : CycleFails(k) \/ CatchRuns(k) ]_vars

-----------------------------------------------------------------------------
(* The two views of the queue *)

\* C30: the direct changes and the rebuild queue hold the same paths in every state
C30_SameQueues == directChanges = rebuildQueue

\* b.ts was queued, into both collections, after the snapshot of the cycle of a.ts had
\* cleared both
C30_Witness ==
    /\ rebuildQueue = { FileB }
    /\ directChanges = { FileB }
    /\ \E k \in Slots : drains[k].pc \in InCycle /\ drains[k].direct = { FileA }

-----------------------------------------------------------------------------
(* The removal of a directory and the removal of its files *)

\* the body of the handler of the removal of directory d runs in the step
DirectoryRemovalRuns(d) ==
    /\ operationQueue # << >>
    /\ operationQueue[1].kind = "unlinkDir"
    /\ operationQueue[1].pc = "queued"
    /\ norm(operationQueue[1].path) = d
    /\ operationQueue' = Tail(operationQueue)

\* after the step f is not tracked and is neither a key nor in a value set of a graph
PurgedFromGraph(f) ==
    /\ f \notin Range(allFiles')
    /\ f \notin DOMAIN dependencyGraph' /\ f \notin DOMAIN reverseDependencyGraph'
    /\ \A x \in DOMAIN dependencyGraph' : f \notin dependencyGraph'[x]
    /\ \A x \in DOMAIN reverseDependencyGraph' : f \notin reverseDependencyGraph'[x]

\* handleFileRemove for each of the files in turn
removeEach(m, files) ==
    LET RECURSIVE each(_, _)
        each(mm, fs) == IF fs = << >> THEN mm ELSE each(handleFileRemove(mm, Head(fs)), Tail(fs))
    IN  each(m, files)

\* C31: the handler of the removal of directory d leaves every file that was tracked
\* under d out of the tracked files, the queue, the direct changes and both graphs, and
\* the file's artifact is gone, as the handler of the removal of a file leaves them
C31_DirectoryAsFiles ==
    [][ \A d \in Dirs : DirectoryRemovalRuns(d) =>
           \A f \in Range(trackedUnder(Mem, d)) :
               /\ PurgedFromGraph(f)
               /\ f \notin rebuildQueue' /\ f \notin directChanges'
               /\ getOutputName(f) \notin outputs' ]_vars

\* the tracked files and the graphs are left as the removal of each file leaves them
DirectoryPurgesGraph ==
    [][ \A d \in Dirs : DirectoryRemovalRuns(d) =>
           LET each == removeEach(Mem, trackedUnder(Mem, d))
           IN  /\ \A f \in Range(trackedUnder(Mem, d)) : PurgedFromGraph(f)
               /\ allFiles' = each.allFiles
               /\ dependencyGraph' = each.dependencyGraph
               /\ reverseDependencyGraph' = each.reverseDependencyGraph ]_vars

\* the handler removes no artifact
DirectoryKeepsArtifacts ==
    [][ \A d \in Dirs : DirectoryRemovalRuns(d) => outputs' = outputs ]_vars

\* a file under d that is on disk and imports another file under d is queued again
DirectoryQueuesOwnFile ==
    [][ \A d \in Dirs : DirectoryRemovalRuns(d) =>
           \A f \in Range(trackedUnder(Mem, d)) :
               (f \in rebuildQueue') =>
                   /\ existsSync(f) /\ rebuildMode = "selective"
                   /\ \E g \in Range(trackedUnder(Mem, d)) : f \in Get(reverseDependencyGraph, g) ]_vars

-----------------------------------------------------------------------------
(* The removal of a file, over every graph (a file that imports itself       *)
(* included) and every content of the disk                                   *)

InitRemove ==
    /\ config = [srcDir |-> << "s" >>, testDir |-> << "t" >>]
    /\ rebuildMode \in { "selective", "all" }
    /\ sourceChangeStrategy = "smart"
    /\ criticalSourcePatterns = {}
    /\ disk \in SUBSET Files
    /\ outputs = {}
    /\ allFiles = ScanOrder
    /\ reverseDependencyGraph \in [Files -> SUBSET Files]
    /\ dependencyGraph = Mirror(reverseDependencyGraph)
    /\ AtRest
    /\ budget = 1
    /\ clsFiles = {}
    /\ clsKind = "change"
    /\ clsResult = determineUpdateStrategy({}, "change")
    /\ trvFiles = {}
    /\ trvResult = NotTraversed
    /\ rsvImport = NoImport
    /\ rsvResult = NoPath

\* the watcher emits unlink for p and the body of handleFileRemove runs, nothing being
\* chained before it
FileRemoval(p) ==
    /\ Spend
    /\ Store(handleFileRemove(Mem, p))
    /\ inCallback' = FALSE
    /\ UNCHANGED << disk, operationQueue >>

SpecRemove == InitRemove /\ [][\E p \in RawPaths : FileRemoval(p)]_vars

\* the handler of the removal of f has run in the step
FileRemoved(f) ==
    /\ \E e \in emitted' : e.ev = "update" /\ e.file = f
    /\ \/ budget' < budget
       \/ RemovalRuns /\ operationQueue[1].kind = "unlink" /\ norm(operationQueue[1].path) = f

\* f is queued after the step, or is a changed file of a cycle that the step started
QueuedAfter(f) ==
    \/ f \in rebuildQueue' \/ f \in directChanges'
    \/ \E k \in Slots : Snapshot(k) /\ (f \in drains'[k].changed \/ f \in drains'[k].direct)

\* C32: when the handler of the removal of f has run, f is not tracked, is neither a
\* key nor in a value set of either graph, and is not queued: the handler has taken it
\* out of the queue and of the direct changes and has not queued it again
C32_RemovedEverywhere ==
    [][ \A f \in Files : FileRemoved(f) => (PurgedFromGraph(f) /\ ~QueuedAfter(f)) ]_vars

\* f leaves the tracked files and the graphs, and is queued again only when it imports
\* itself, is on disk and the mode is selective
RemovedUnlessSelfImport ==
    [][ \A f \in Files : FileRemoved(f) =>
           /\ PurgedFromGraph(f)
           /\ QueuedAfter(f) <=>
                 (f \in reverseDependencyGraph[f] /\ existsSync(f) /\ rebuildMode = "selective") ]_vars

-----------------------------------------------------------------------------
(* After stop() has returned *)

\* stop() has returned: the watcher is forgotten
Stopped == watcher \in { "closed", "exited" }

StopClearsGraph ==
    [][ /\ (watcher = "closing" /\ watcher' = "closed") =>
              (dependencyGraph' = << >> /\ reverseDependencyGraph' = << >>)
        /\ watcher # "open" => Len(operationQueue') <= Len(operationQueue) ]_vars

\* with nothing in flight, queued or chained the engine stays silent and the graphs stay
\* empty
QuietWhenIdle ==
    [][ (Stopped /\ Released /\ operationQueue = << >> /\ resumed = 0) =>
           /\ \A e \in emitted' : e.ev \notin { "update", "rebuild" }
           /\ dependencyGraph' = dependencyGraph
           /\ reverseDependencyGraph' = reverseDependencyGraph ]_vars

====
